---- MODULE Spec2Model ----
(***************************************************************************)
(* Trace recording protocol of assay / verdict-sdk.                        *)
(*                                                                         *)
(* Two kinds of producer append newline-delimited events to one shared     *)
(* destination file:                                                       *)
(*   - a "recorder": an EpisodeRecorder driven inside a with-block, which  *)
(*     emits every event through TraceWriter.write_event (writer.py);      *)
(*   - a "harness": FunctionCallingAgent.run builds an Episode in memory,  *)
(*     episode_to_jsonl turns it into lines and save_trace appends them    *)
(*     (examples/agent-demo-2/agent.py), or record_scenarios writes them   *)
(*     to a fresh file (examples/agent-demo-2/run_demo.py).                *)
(* A "writer" is a client calling TraceWriter.write_event directly.        *)
(* Producers are independent processes; the only shared state is the       *)
(* destination file, which changes one append system call at a time.       *)
(*                                                                         *)
(* Spec has one process alone, SpecShared two producers on one file, and   *)
(* SpecPure applies the pure functions (the json encoding of an event,     *)
(* the format of a step id, the conversion of an Episode to lines with     *)
(* their timestamps) to inputs drawn from bounded sets.                    *)
(*                                                                         *)
(* Optional values (Python None) are sequences of length 0 or 1.           *)
(***************************************************************************)
EXTENDS Integers, Sequences, FiniteSets, TLC

\* ------------------------------------------------------------------ bounds
\* one producer running alone (Spec)
MaxOps == 4          \* step/tool_call/end calls made inside one with-block
MaxIterations == 2   \* largest max_iterations an agent is constructed with
MaxToolCalls == 2    \* tool invocations requested in one model turn
\* two producers sharing the destination (SpecShared)
SharedOps == 1
SharedIterations == 1
SharedToolCalls == 0

Procs == {"p1", "p2"}
\* test ids a caller may pass: none, the empty string, a proper id
TestIds == {<<>>, <<"">>, <<"t1">>}
Outcomes == {"pass", "fail", "error"}

None == <<>>
Some(v) == <<v>>

VARIABLES
    cfg,         \* the bounds of this run: [ops, iters, tools, rich]
    role,        \* role[p]: "recorder", "harness", "writer" or "absent"
    test_id,     \* test_id[p]: optional test id given to the producer
    rec,         \* rec[p]: EpisodeRecorder object of a recorder process
    agent,       \* agent[p]: FunctionCallingAgent.run frame of a harness process
    pending,     \* pending[p]: data handed to p's open file and not yet written
    dest,        \* content of the shared destination file
    emitted,     \* history: emitted[p] = events p has handed to its file, in order
    calls,       \* history: calls[p] = operations performed on p's episode
    effects,     \* history: lines in the order their append took effect on dest
    fn           \* one application of a pure function: its input, then its results

vars == <<cfg, fn, role, test_id, rec, agent, pending, dest, emitted, calls, effects>>

\* --------------------------------------------------------------- utilities
RECURSIVE Flatten(_)
Flatten(ss) == IF ss = <<>> THEN <<>> ELSE Head(ss) \o Flatten(Tail(ss))

RECURSIVE SelectIdx(_, _, _)
\* indices i >= from of s with s[i] in set S, ascending
SelectIdx(s, S, from) ==
    IF from > Len(s) THEN <<>>
    ELSE IF s[from] \in S THEN <<from>> \o SelectIdx(s, S, from + 1)
    ELSE SelectIdx(s, S, from + 1)

EpisodeIdOf(p) == IF p = "p1" THEN "e1" ELSE "e2"

\* no pure function is being applied
NoFn == [op |-> "none"]

\* ------------------------------------------------------------------ strings
\* A string is modelled as the sequence of its pieces, each piece a TLA+ string.
DigitChars == <<"0", "1", "2", "3", "4", "5", "6", "7", "8", "9">>

\* the position of the digit character ch in code point order
DigitRank(ch) == CHOOSE i \in 1..10 : DigitChars[i] = ch

RECURSIVE Digits(_)
\* the decimal digits of n >= 0, most significant first
Digits(n) ==
    IF n < 10 THEN <<DigitChars[n + 1]>>
    ELSE Digits(n \div 10) \o <<DigitChars[(n % 10) + 1]>>

RECURSIVE DigitsValue(_, _)
\* the number a sequence of digit characters denotes, after the value acc
DigitsValue(digits, acc) ==
    IF digits = <<>> THEN acc
    ELSE DigitsValue(Tail(digits), 10 * acc + DigitRank(Head(digits)) - 1)

RECURSIVE ZeroPad(_, _)
\* format(n, "0<width>d"): zeros in front up to width, never a cut
ZeroPad(digits, width) ==
    IF Len(digits) >= width THEN digits ELSE ZeroPad(<<"0">> \o digits, width)

RECURSIVE StrLess(_, _)
\* a < b for two strings whose differing pieces are digit characters
StrLess(a, b) ==
    IF b = <<>> THEN FALSE
    ELSE IF a = <<>> THEN TRUE
    ELSE IF Head(a) = Head(b) THEN StrLess(Tail(a), Tail(b))
    ELSE DigitRank(Head(a)) < DigitRank(Head(b))

\* --------------------------------------------------------------------- json
\* A Python object given to json.dumps is one of
\*   <<"None">>  <<"bool", b>>  <<"int", n>>  <<"float", x>>  <<"str", s>>
\*   <<"list", items>>   <<"dict", pairs>> with pairs = << <<key, value>>, ... >>
\*                       in insertion order, the keys distinct
\*   <<"tuple">>         a hashable object json cannot use as a key
\*   <<"object">>        an object json cannot serialize
\* A float x is "nan", "inf", "-inf" or the repr of a finite float.
\* The text produced is a sequence of lexemes: punctuation <<"p", c>>, blanks
\* <<"ws", " ">>, literals <<"lit", w>>, numbers <<"int", n>> and
\* <<"float", repr>>, and quoted strings <<"s", content>>.
Ok(text) == [err |-> None, text |-> text]
Fail(kind) == [err |-> Some(kind), text |-> <<>>]

Punct(c) == <<"p", c>>
Ws == <<"ws", " ">>

\* float.__repr__, and the names json gives to the non-finite floats when
\* allow_nan is left at its default True
FloatRepr(x) ==
    CASE x = "nan" -> "NaN"
      [] x = "inf" -> "Infinity"
      [] x = "-inf" -> "-Infinity"
      [] OTHER -> x

\* the string a mapping key is written as: str as it is, int, float, bool
\* and None converted, anything else is an error (skipkeys is False)
KeyText(k) ==
    CASE k[1] = "str" -> Some(k[2])
      [] k[1] = "int" -> Some(ToString(k[2]))
      [] k[1] = "float" -> Some(FloatRepr(k[2]))
      [] k[1] = "bool" -> Some(IF k[2] THEN "true" ELSE "false")
      [] k[1] = "None" -> Some("null")
      [] OTHER -> None

\* the strings of the model, in code point order
StrOrder == <<"", "1", "a", "b", "null", "x">>
StrRank(str) == CHOOSE i \in 1..Len(StrOrder) : StrOrder[i] = str

\* the kinds of keys Python can order among themselves
KeyClass(k) == IF k[1] \in {"int", "float", "bool"} THEN "number" ELSE k[1]

\* sorted(dct.items()) does not raise: no two keys of kinds that do not compare
Sortable(pairs) ==
    \A i, j \in 1..Len(pairs) :
        i # j => /\ KeyClass(pairs[i][1]) = KeyClass(pairs[j][1])
                 /\ KeyClass(pairs[i][1]) \in {"str", "number"}

\* k1 < k2 for two keys of one kind
KeyLess(k1, k2) ==
    IF k1[1] = "str" THEN StrRank(k1[2]) < StrRank(k2[2]) ELSE k1[2] < k2[2]

RECURSIVE InsertItem(_, _)
InsertItem(pair, sorted) ==
    IF sorted = <<>> THEN <<pair>>
    ELSE IF KeyLess(pair[1], Head(sorted)[1]) THEN <<pair>> \o sorted
    ELSE <<Head(sorted)>> \o InsertItem(pair, Tail(sorted))

RECURSIVE SortItems(_)
\* variant: the items are left in insertion order
SortItems_as_inserted(pairs) == pairs

\* sorted(dct.items()) for sortable keys
SortItems(pairs) ==
    IF pairs = <<>> THEN <<>> ELSE InsertItem(Head(pairs), SortItems(Tail(pairs)))

RECURSIVE Join(_, _)
\* separator.join(texts)
Join(texts, sep) ==
    IF texts = <<>> THEN <<>>
    ELSE IF Len(texts) = 1 THEN texts[1]
    ELSE texts[1] \o sep \o Join(Tail(texts), sep)

\* separators=(",", ":") when compact, the default (", ", ": ") otherwise
ItemSeparator(compact) == IF compact THEN <<Punct(",")>> ELSE <<Punct(","), Ws>>
KeySeparator(compact) == IF compact THEN <<Punct(":")>> ELSE <<Punct(":"), Ws>>

\* the first error among the results rs, if any
FirstErr(rs) ==
    IF \E i \in 1..Len(rs) : rs[i].err # None
    THEN rs[CHOOSE i \in 1..Len(rs) :
                /\ rs[i].err # None
                /\ \A j \in 1..(i - 1) : rs[j].err = None].err
    ELSE None

RECURSIVE json_encode(_, _, _)
\* json.dumps(o, sort_keys=sort_keys, separators=..., ensure_ascii=False):
\* the text, or the error raised
json_encode(o, sort_keys, compact) ==
    CASE o[1] = "None" -> Ok(<< <<"lit", "null">> >>)
      [] o[1] = "bool" -> Ok(<< <<"lit", IF o[2] THEN "true" ELSE "false">> >>)
      [] o[1] = "int" -> Ok(<< <<"int", o[2]>> >>)
      [] o[1] = "float" -> Ok(<< <<"float", FloatRepr(o[2])>> >>)
      [] o[1] = "str" -> Ok(<< <<"s", o[2]>> >>)
      [] o[1] = "list" ->
            LET rs == [i \in 1..Len(o[2]) |-> json_encode(o[2][i], sort_keys, compact)]
            IN  IF FirstErr(rs) # None THEN Fail(FirstErr(rs)[1])
                ELSE Ok(<<Punct("[")>>
                            \o Join([i \in 1..Len(rs) |-> rs[i].text], ItemSeparator(compact))
                            \o <<Punct("]")>>)
      [] o[1] = "dict" ->
            IF sort_keys /\ ~Sortable(o[2]) THEN Fail("TypeError")
            ELSE LET items == IF sort_keys THEN SortItems(o[2]) ELSE o[2]
                     ks == [i \in 1..Len(items) |->
                               IF KeyText(items[i][1]) = None
                               THEN Fail("TypeError")
                               ELSE Ok(<< <<"s", KeyText(items[i][1])[1]>> >>)]
                     rs == [i \in 1..Len(items) |->
                               IF ks[i].err # None THEN ks[i]
                               ELSE json_encode(items[i][2], sort_keys, compact)]
                 IN  IF FirstErr(rs) # None THEN Fail(FirstErr(rs)[1])
                     ELSE Ok(<<Punct("{")>>
                                 \o Join([i \in 1..Len(rs) |->
                                              ks[i].text \o KeySeparator(compact) \o rs[i].text],
                                         ItemSeparator(compact))
                                 \o <<Punct("}")>>)
      [] OTHER -> Fail("TypeError")

\* the result of a parse: a value and the text left, or a failure
Parsed(val, rest) == [ok |-> TRUE, val |-> val, rest |-> rest]
NotParsed == [ok |-> FALSE, val |-> <<"None">>, rest |-> <<>>]

\* dct[key] = val on the pairs of a dict: a repeated key keeps its place
PutItem(pairs, key, val) ==
    IF \E i \in 1..Len(pairs) : pairs[i][1] = key
    THEN [i \in 1..Len(pairs) |-> IF pairs[i][1] = key THEN <<key, val>> ELSE pairs[i]]
    ELSE Append(pairs, <<key, val>>)

\* the float a number lexeme denotes
FloatOf(repr) ==
    CASE repr = "NaN" -> "nan"
      [] repr = "Infinity" -> "inf"
      [] repr = "-Infinity" -> "-inf"
      [] OTHER -> repr

RECURSIVE ParseValue(_), ParseItems(_, _), ParseMembers(_, _)
\* json.loads: one value at the head of a text without blanks
ParseValue(text) ==
    IF text = <<>> THEN NotParsed
    ELSE LET h == Head(text)
             rest == Tail(text)
         IN  CASE h[1] = "lit" ->
                      Parsed(CASE h[2] = "null" -> <<"None">>
                               [] h[2] = "true" -> <<"bool", TRUE>>
                               [] h[2] = "false" -> <<"bool", FALSE>>, rest)
               [] h[1] = "int" -> Parsed(<<"int", h[2]>>, rest)
               [] h[1] = "float" -> Parsed(<<"float", FloatOf(h[2])>>, rest)
               [] h[1] = "s" -> Parsed(<<"str", h[2]>>, rest)
               [] h[1] = "p" /\ h[2] = "[" ->
                      IF rest # <<>> /\ Head(rest) = Punct("]")
                      THEN Parsed(<<"list", <<>> >>, Tail(rest))
                      ELSE ParseItems(rest, <<>>)
               [] h[1] = "p" /\ h[2] = "{" ->
                      IF rest # <<>> /\ Head(rest) = Punct("}")
                      THEN Parsed(<<"dict", <<>> >>, Tail(rest))
                      ELSE ParseMembers(rest, <<>>)
               [] OTHER -> NotParsed

\* the items of an array after "[" or ",", items being those read so far
ParseItems(text, items) ==
    LET v == ParseValue(text)
    IN  IF ~v.ok \/ v.rest = <<>> THEN NotParsed
        ELSE IF Head(v.rest) = Punct(",")
             THEN ParseItems(Tail(v.rest), Append(items, v.val))
        ELSE IF Head(v.rest) = Punct("]")
             THEN Parsed(<<"list", Append(items, v.val)>>, Tail(v.rest))
        ELSE NotParsed

\* the members of an object after "{" or ",", pairs being those read so far
ParseMembers(text, pairs) ==
    IF Len(text) < 3 \/ text[1][1] # "s" \/ text[2] # Punct(":") THEN NotParsed
    ELSE LET v == ParseValue(SubSeq(text, 3, Len(text)))
             read == PutItem(pairs, <<"str", text[1][2]>>, v.val)
         IN  IF ~v.ok \/ v.rest = <<>> THEN NotParsed
             ELSE IF Head(v.rest) = Punct(",") THEN ParseMembers(Tail(v.rest), read)
             ELSE IF Head(v.rest) = Punct("}") THEN Parsed(<<"dict", read>>, Tail(v.rest))
             ELSE NotParsed

\* json.loads(text): the value, or nothing when the text is not one JSON value
json_loads(text) ==
    LET v == ParseValue(SelectSeq(text, LAMBDA lexeme : lexeme[1] # "ws"))
    IN  IF v.ok /\ v.rest = <<>> THEN Some(v.val) ELSE None

RECURSIVE PyEq(_, _)
\* a == b in Python: nan equals nothing, dicts compare without order
PyEq(a, b) ==
    IF a[1] # b[1] THEN FALSE
    ELSE CASE a[1] = "float" -> a[2] = b[2] /\ a[2] # "nan"
           [] a[1] = "list" ->
                  /\ Len(a[2]) = Len(b[2])
                  /\ \A i \in 1..Len(a[2]) : PyEq(a[2][i], b[2][i])
           [] a[1] = "dict" ->
                  /\ Len(a[2]) = Len(b[2])
                  /\ \A i \in 1..Len(a[2]) : \E j \in 1..Len(b[2]) :
                         /\ a[2][i][1] = b[2][j][1]
                         /\ PyEq(a[2][i][2], b[2][j][2])
           [] OTHER -> a = b

\* ------------------------------------------------------- text and the file
NL == <<"\n">>
Text(enc) == <<"text", enc>>

\* json.dumps(obj, sort_keys=..., separators=...): the encoded text of obj,
\* kept as the call that produces it
json_dumps(obj, sort_keys, compact) ==
    [obj |-> obj, sort_keys |-> sort_keys, compact |-> compact]

\* the lexemes of such a text, or the error the call raises instead
TextOf(line) == json_encode(line.obj, line.sort_keys, line.compact)

\* line 13 of write_event, applied to an event
EncodedLine(event) == TextOf(json_dumps(event, TRUE, TRUE))

\* open(path, mode): "a" keeps the content, "w" truncates it
open(content, mode) == IF mode = "w" THEN <<>> ELSE content


\* variant: the line and its newline are written by two unbuffered writes
write_event_split(event) ==
    LET line == json_dumps(event, TRUE, TRUE)
    IN  << <<Text(line)>>, <<NL>> >>

\* TraceWriter.write_event: the data given to the file between open and close.
\* One f.write call with line + "\n"; the file holds it until close.
write_event(event) ==
    LET line == json_dumps(event, TRUE, TRUE)
    IN  << <<Text(line), NL>> >>

\* variant: the file is opened with mode "w"
WriteEventCall_truncating(p, event) ==
    /\ dest' = open(dest, "w")
    /\ pending' = [pending EXCEPT ![p] = write_event(event)]
    /\ emitted' = [emitted EXCEPT ![p] = Append(@, event)]

\* A process p calls write_event(event): encode, open for append, f.write.
\* The append itself happens in Flush, when the with-block closes the file.
WriteEventCall(p, event) ==
    /\ dest' = open(dest, "a")
    /\ pending' = [pending EXCEPT ![p] = write_event(event)]
    /\ emitted' = [emitted EXCEPT ![p] = Append(@, event)]

\* an entry of the calls history: the operation, its argument, the recorder
\* it was applied to and the error it raised
Call(op, arg, pre, raised) == [op |-> op, arg |-> arg, pre |-> pre, raised |-> raised]
Log(p, op, arg, raised) ==
    calls' = [calls EXCEPT ![p] = Append(@, Call(op, arg, rec[p], raised))]

InBudget(p) == Len(calls[p]) < cfg.ops

\* events a client may hand to write_event: two that json.dumps encodes and
\* two it raises on (a value it cannot serialize, a key it cannot convert)
WriterEvents ==
    {<<"dict", << <<<<"str", "a">>, <<"int", 1>> >> >> >>,
     <<"dict", << <<<<"str", "b">>, <<"str", "x">> >> >> >>,
     <<"dict", << <<<<"str", "a">>, <<"object">> >> >> >>,
     <<"dict", << <<<<"tuple">>, <<"int", 1>> >> >> >>}

\* variant: the file is opened, with mode "w", before the event is encoded
WriteEventRaises_after_open(p) ==
    /\ dest' = open(dest, "w")
    /\ UNCHANGED <<pending, emitted>>

\* json.dumps raises on line 13: the lines that open and write are not reached
WriteEventRaises(p) ==
    UNCHANGED <<dest, pending, emitted>>

\* A client process calls writer.write_event(event), its earlier call having
\* returned: the call raises what json.dumps raises, or goes on to append.
WriteEvent(p, event) ==
    /\ role[p] = "writer"
    /\ pending[p] = <<>>
    /\ InBudget(p)
    /\ LET raised == EncodedLine(event).err
       IN  /\ Log(p, "write_event", event, raised)
           /\ IF raised # None THEN WriteEventRaises(p) ELSE WriteEventCall(p, event)
    /\ UNCHANGED <<cfg, fn, role, test_id, rec, agent, effects>>

\* objects of the text tokens of a token sequence, and their encoded lines
RECURSIVE LinesOf(_)
LinesOf(toks) ==
    IF toks = <<>> THEN <<>>
    ELSE IF Head(toks)[1] = "text" THEN <<Head(toks)[2]>> \o LinesOf(Tail(toks))
    ELSE LinesOf(Tail(toks))

EffectsOf(p, toks) == [i \in 1..Len(LinesOf(toks)) |-> [proc |-> p, line |-> LinesOf(toks)[i]]]

\* The open file of p writes its k oldest f.write units to dest in one append
\* system call (a buffered file may do so between two f.write calls, and does
\* so for all that is left when it is closed).
Flush(p, k) ==
    /\ pending[p] # <<>>
    /\ k \in 1..Len(pending[p])
    /\ LET toks == Flatten(SubSeq(pending[p], 1, k))
       IN  /\ dest' = dest \o toks
           /\ effects' = effects \o EffectsOf(p, toks)
    /\ pending' = [pending EXCEPT ![p] = SubSeq(@, k + 1, Len(@))]
    /\ agent' = [agent EXCEPT ![p].pc =
                    IF @ = "saving" /\ k = Len(pending[p]) THEN "saved" ELSE @]
    /\ UNCHANGED <<cfg, fn, role, test_id, rec, emitted, calls>>

\* ------------------------------------------------------------ wire events
\* variant: the test id is ignored
WireId_ignoring_test_id(tid, episode_id) == episode_id

\* ep_id = test_id if test_id else episode.episode_id
\* (None and the empty string are both false)
WireId(tid, episode_id) == IF tid # None /\ tid[1] # "" THEN tid[1] ELSE episode_id

EpisodeStartEvent(ep_id) ==
    [type |-> "episode_start", episode_id |-> ep_id]
StepEvent(ep_id, step_id, idx) ==
    [type |-> "step", episode_id |-> ep_id, step_id |-> step_id, idx |-> idx]
ToolCallEvent(ep_id, step_id, tool_result, error) ==
    [type |-> "tool_call", episode_id |-> ep_id, step_id |-> step_id,
     call_index |-> 0, result |-> [value |-> tool_result], error |-> error]
EpisodeEndEvent(ep_id, outcome, final_output) ==
    [type |-> "episode_end", episode_id |-> ep_id, outcome |-> outcome,
     final_output |-> final_output]

\* --------------------------------------------------------- EpisodeRecorder
\* rec[p].state: "Unstarted" before start, then Open -> Recording -> Ended
\* rec[p].scope: position of the driving with-block
\* rec[p].issued: number of step ids returned by step()
\* rec[p].outcome: the outcome the episode ended with, once ended
\* rec[p].raised: the error raised by the last call, if any
NewRecorder ==
    [state |-> "Unstarted", scope |-> "before", issued |-> 0,
     outcome |-> None, raised |-> None]

RecStepId(p, n) == <<EpisodeIdOf(p), n>>
RecWireId(p) == WireId(test_id[p], EpisodeIdOf(p))

Callable(p) ==
    /\ role[p] = "recorder"
    /\ rec[p].scope = "inside"
    /\ pending[p] = <<>>

\* variant: a repeated end overwrites the recorded outcome
EndResult_overwrite(r, outcome) ==
    [r EXCEPT !.state = "Ended", !.outcome = Some(outcome), !.raised = None]

\* EpisodeRecorder.end(outcome) applied to recorder r:
\* the recorder after the call, and the events the call emits
EndResult(r, outcome) ==
    IF r.state = "Ended" THEN [r EXCEPT !.raised = None]
    ELSE [r EXCEPT !.state = "Ended", !.outcome = Some(outcome), !.raised = None]
EndEmits(ep_id, r, outcome) ==
    IF r.state = "Ended" THEN <<>>
    ELSE <<EpisodeEndEvent(ep_id, outcome, None)>>

\* variant: the with-block ends the episode with "error" however it is left
ExitOutcome_always_error(fault) == "error"

\* variant: the with-block ends the episode with "pass" however it is left
ExitOutcome_always_pass(fault) == "pass"

\* the outcome the with-block ends the episode with when it is left
ExitOutcome(fault) == IF fault THEN "error" ELSE "pass"

\* write the events an operation emits (none or one), or leave the file alone
Emit(p, evs) ==
    IF evs = <<>>
    THEN UNCHANGED <<dest, pending, emitted>>
    ELSE WriteEventCall(p, evs[1])

\* start(episode_id, test_id, prompt) on entering the with-block
RecStart(p) ==
    /\ role[p] = "recorder"
    /\ rec[p].scope = "before"
    /\ rec' = [rec EXCEPT ![p].scope = "inside", ![p].state = "Open"]
    /\ Emit(p, <<EpisodeStartEvent(RecWireId(p))>>)
    /\ UNCHANGED <<cfg, fn, role, test_id, agent, calls, effects>>

\* variant: step() is accepted in every state
StepRaises_any_state(r) == None

\* the error step() raises on recorder r, if any
StepRaises(r) ==
    IF r.state \in {"Open", "Recording"} THEN None ELSE Some("IllegalStateError")

\* step(kind, name, content) -> step_id
RecStep(p) ==
    /\ Callable(p)
    /\ InBudget(p)
    /\ LET n == rec[p].issued + 1
           raised == StepRaises(rec[p])
       IN  /\ Log(p, "step", RecStepId(p, n), raised)
           /\ IF raised = None
              THEN /\ rec' = [rec EXCEPT ![p].state = "Recording", ![p].issued = n,
                                         ![p].raised = None]
                   /\ Emit(p, <<StepEvent(RecWireId(p), RecStepId(p, n), n - 1)>>)
              ELSE /\ rec' = [rec EXCEPT ![p].raised = raised]
                   /\ Emit(p, <<>>)
    /\ UNCHANGED <<cfg, fn, role, test_id, agent, effects>>

\* variant: the step id is not looked up
ToolCallRaises_unchecked(r, n) ==
    IF r.state = "Ended" THEN Some("IllegalStateError") ELSE None

\* the error tool_call(..., step_id) raises on recorder r for the n-th id
ToolCallRaises(r, n) ==
    IF n > r.issued THEN Some("DanglingReferenceError")
    ELSE IF r.state = "Ended" THEN Some("IllegalStateError")
    ELSE None

\* tool_call(tool_name, args, result, step_id, error)
RecToolCall(p, n) ==
    /\ Callable(p)
    /\ InBudget(p)
    /\ n <= rec[p].issued + 1      \* one unissued id stands for them all
    /\ LET raised == ToolCallRaises(rec[p], n)
       IN  /\ Log(p, "tool_call", RecStepId(p, n), raised)
           /\ rec' = [rec EXCEPT ![p].raised = raised]
           /\ IF raised = None
              THEN Emit(p, <<ToolCallEvent(RecWireId(p), RecStepId(p, n), {"value"}, None)>>)
              ELSE Emit(p, <<>>)
    /\ UNCHANGED <<cfg, fn, role, test_id, agent, effects>>

\* end(outcome), called explicitly inside the with-block
RecEnd(p, outcome) ==
    /\ Callable(p)
    /\ InBudget(p)
    /\ Log(p, "end", <<outcome>>, None)
    /\ rec' = [rec EXCEPT ![p] = EndResult(rec[p], outcome)]
    /\ Emit(p, EndEmits(RecWireId(p), rec[p], outcome))
    /\ UNCHANGED <<cfg, fn, role, test_id, agent, effects>>

\* leaving the with-block, normally or through an unhandled fault
RecExit(p, fault) ==
    /\ Callable(p)
    /\ Log(p, "exit", <<fault>>, None)
    /\ rec' = [rec EXCEPT ![p] = [EndResult(rec[p], ExitOutcome(fault)) EXCEPT
                                    !.scope = "exited", !.raised = rec[p].raised]]
    /\ Emit(p, EndEmits(RecWireId(p), rec[p], ExitOutcome(fault)))
    /\ UNCHANGED <<cfg, fn, role, test_id, agent, effects>>

\* ------------------------------------------------ FunctionCallingAgent.run
\* agent[p].pc: "idle" -> "loop" -> "after_loop" -> "returned" -> "saving"
\*              -> "saved", or "raised" when run lets an exception escape, and
\*              from there "dropped" when record_scenarios catches it.
\* agent[p].caller is the function that awaits run: main or record_scenarios.
\* agent[p].faults is history: the kinds of failure the run has met so far.
\* agent[p].turns is history: for each answer of the model so far, the pair
\* <<k, bad>> of the number of tool calls it requested and the number of the
\* request whose arguments could not be parsed (0 if none).
NewEpisode(episode_id) ==
    [episode_id |-> episode_id, steps |-> <<>>, outcome |-> "pending",
     output |-> None, finished_at |-> None]

NewAgent ==
    [pc |-> "idle", caller |-> "main", max_iterations |-> 0, iteration |-> 0,
     faults |-> {}, turns |-> <<>>, episode |-> NewEpisode("")]

\* the minimum width of the index in a step id
StepIdWidth == 3

\* variant: the index is not padded
StepId_unpadded(episode_id, step_idx) ==
    <<episode_id, "_step_">> \o Digits(step_idx)

\* f"{episode.episode_id}_step_{step_idx:03d}"
StepId(episode_id, step_idx) ==
    <<episode_id, "_step_">> \o ZeroPad(Digits(step_idx), StepIdWidth)

LlmStep(episode) ==
    [step_id |-> StepId(episode.episode_id, Len(episode.steps) + 1),
     span_kind |-> "llm", tool_call |-> None]

\* what execute_tool returns, as the set of keys of the returned mapping:
\* the tool's own mapping, or {"error": ...} for an unknown tool and for a
\* tool that raised
ToolResults == {{"value"}, {"error"}}

\* ToolCall(tool_name, tool_args, tool_result, success): error keeps its
\* default. The arguments of the i-th request of a turn are written i.
ToolCall(tool_args, tool_result) ==
    [tool_name |-> "tool", tool_args |-> tool_args, tool_result |-> tool_result,
     success |-> ~("error" \in tool_result), error |-> None]

ToolStep(episode, tool_args, tool_result) ==
    [step_id |-> StepId(episode.episode_id, Len(episode.steps) + 1),
     span_kind |-> "tool", tool_call |-> Some(ToolCall(tool_args, tool_result))]

RECURSIVE AppendToolSteps_newest_first(_, _, _)
\* variant: each tool step is put directly after the llm step of its turn,
\* before the tool steps already recorded for that turn
AppendToolSteps_newest_first(episode, k, err) ==
    IF k = 0 THEN episode
    ELSE LET before == AppendToolSteps_newest_first(episode, k - 1, err)
             tool_result == IF k = err THEN {"error"} ELSE {"value"}
             n == Len(before.steps) - (k - 1)
         IN  [before EXCEPT !.steps =
                 SubSeq(@, 1, n) \o <<ToolStep(before, k, tool_result)>>
                     \o SubSeq(@, n + 1, Len(@))]

RECURSIVE AppendToolSteps(_, _, _)
\* the body of "for tool_call in msg.tool_calls", run for the calls 1..k,
\* of which call number err (if not 0) names a tool that fails
AppendToolSteps(episode, k, err) ==
    IF k = 0 THEN episode
    ELSE LET before == AppendToolSteps(episode, k - 1, err)
             tool_result == IF k = err THEN {"error"} ELSE {"value"}
         IN  [before EXCEPT !.steps = Append(@, ToolStep(before, k, tool_result))]

\* the calls history of the steps appended after the first n
StepCalls(steps, n) ==
    Flatten([i \in 1..(Len(steps) - n) |->
        <<Call("step", steps[n + i].step_id, None, None)>>
            \o (IF steps[n + i].tool_call # None
                THEN <<Call("tool_call", steps[n + i].step_id, None, None)>>
                ELSE <<>>)])

\* answers of the model to one chat.completions.create call:
\* <<"raise", 0, 0, 0>>    the call raises;
\* <<"final", c, 0, 0>>    a message without tool calls, whose content is a
\*                         string (c = 1) or None (c = 0);
\* <<"tools", k, bad, err>> a message with k tool calls, of which call number
\*                         bad (if not 0) carries arguments json.loads cannot
\*                         parse, or of which the last fails in execute_tool
\*                         (err = 1)
ModelAnswers ==
    {<<"raise", 0, 0, 0>>, <<"final", 0, 0, 0>>, <<"final", 1, 0, 0>>}
        \cup {<<"tools", k, bad, err>> :
                 k \in 1..MaxToolCalls, bad \in 0..MaxToolCalls, err \in 0..1}

Callers == {"main", "record_scenarios"}

\* run(user_message, episode_id) up to the first test of the while loop
RunStart(p, max_iterations, caller) ==
    /\ role[p] = "harness"
    /\ agent[p].pc = "idle"
    /\ max_iterations <= cfg.iters
    /\ caller = "record_scenarios" => cfg.rich /\ test_id[p] = None
    /\ agent' = [agent EXCEPT ![p] =
                    [pc |-> "loop", caller |-> caller, max_iterations |-> max_iterations,
                     iteration |-> 0, faults |-> {}, turns |-> <<>>,
                     episode |-> NewEpisode(EpisodeIdOf(p))]]
    /\ UNCHANGED <<cfg, fn, role, test_id, rec, pending, dest, emitted, calls, effects>>

\* variant: the loop is entered once more
LoopContinues_inclusive(a) == a.iteration <= a.max_iterations

\* the test of "while iteration < self.max_iterations"
LoopContinues(a) == a.iteration < a.max_iterations

\* f"Max iterations ({self.max_iterations}) exceeded"
MaxIterationsMessage(max_iterations) ==
    <<"Max iterations (">> \o Digits(max_iterations) \o <<") exceeded">>

\* one pass through the body of "while iteration < self.max_iterations"
RunIteration(p, answer) ==
    /\ role[p] = "harness"
    /\ agent[p].pc = "loop"
    /\ LoopContinues(agent[p])
    /\ answer[1] = "tools" =>
           /\ answer[2] <= cfg.tools
           /\ answer[3] <= answer[2]
           /\ answer[4] = 1 => answer[3] = 0
    /\ ~cfg.rich => answer[4] = 0 /\ answer # <<"final", 0, 0, 0>>
    /\ LET a == agent[p]
           withLlm == [a.episode EXCEPT !.steps = Append(@, LlmStep(a.episode))]
           content == IF answer[2] = 1 THEN Some("text") ELSE None
           episode ==
               CASE answer[1] = "raise" -> [withLlm EXCEPT !.outcome = "error"]
                 [] answer[1] = "final" ->
                        [withLlm EXCEPT !.output = content, !.outcome = "pass"]
                 [] answer[1] = "tools" ->
                        IF answer[3] = 0
                        THEN AppendToolSteps(withLlm, answer[2], answer[2] * answer[4])
                        ELSE AppendToolSteps(withLlm, answer[3] - 1, 0)
           pc ==
               CASE answer[1] \in {"raise", "final"} -> "after_loop"
                 [] answer[1] = "tools" -> IF answer[3] = 0 THEN "loop" ELSE "raised"
           faults ==
               (IF answer[1] = "raise" THEN {"model"} ELSE {})
                   \cup (IF answer[1] = "tools" /\ answer[3] # 0 THEN {"arguments"} ELSE {})
                   \cup (IF answer[1] = "tools" /\ answer[4] # 0 THEN {"tool"} ELSE {})
       IN  /\ agent' = [agent EXCEPT ![p] =
                           [a EXCEPT !.pc = pc, !.iteration = @ + 1, !.episode = episode,
                                     !.faults = @ \cup faults,
                                     !.turns = Append(@, IF answer[1] = "tools"
                                                         THEN <<answer[2], answer[3]>>
                                                         ELSE <<0, 0>>)]]
           /\ calls' = [calls EXCEPT ![p] =
                           @ \o StepCalls(episode.steps, Len(a.episode.steps))]
    /\ UNCHANGED <<cfg, fn, role, test_id, rec, pending, dest, emitted, effects>>

\* the while condition fails: fall out of the loop
RunLoopExit(p) ==
    /\ role[p] = "harness"
    /\ agent[p].pc = "loop"
    /\ ~LoopContinues(agent[p])
    /\ agent' = [agent EXCEPT ![p].pc = "after_loop"]
    /\ UNCHANGED <<cfg, fn, role, test_id, rec, pending, dest, emitted, calls, effects>>

\* the statements after the loop, up to "return episode"
RunFinish(p) ==
    /\ role[p] = "harness"
    /\ agent[p].pc = "after_loop"
    /\ LET a == agent[p]
           checked == IF a.iteration >= a.max_iterations
                      THEN [a.episode EXCEPT !.outcome = "error",
                                             !.output =
                                                 Some(MaxIterationsMessage(a.max_iterations))]
                      ELSE a.episode
       IN  agent' = [agent EXCEPT ![p] =
                        [a EXCEPT !.pc = "returned",
                                  !.episode = [checked EXCEPT !.finished_at = Some("now")]]]
    /\ UNCHANGED <<cfg, fn, role, test_id, rec, pending, dest, emitted, calls, effects>>

\* -------------------------------------------------------- episode_to_jsonl
\* variant: the tool_call event is put before the step event it refers to
StepLines_tool_first(ep_id, step, idx) ==
    (IF step.tool_call # None
     THEN <<ToolCallEvent(ep_id, step.step_id, step.tool_call[1].tool_result, None)>>
     ELSE <<>>)
        \o <<StepEvent(ep_id, step.step_id, idx)>>

\* variant: a step gives its step event only
StepLines_step_only(ep_id, step, idx) ==
    <<StepEvent(ep_id, step.step_id, idx)>>

\* the events of one step: its step event, then its tool_call event if any
StepLines(ep_id, step, idx) ==
    <<StepEvent(ep_id, step.step_id, idx)>>
        \o (IF step.tool_call # None
            THEN <<ToolCallEvent(ep_id, step.step_id, step.tool_call[1].tool_result, None)>>
            ELSE <<>>)

\* variant: the episode_end event is appended once per step
episode_to_jsonl_end_in_loop(episode, tid) ==
    LET ep_id == WireId(tid, episode.episode_id)
    IN  <<EpisodeStartEvent(ep_id)>>
            \o Flatten([i \in 1..Len(episode.steps) |->
                           StepLines(ep_id, episode.steps[i], i - 1)
                               \o <<EpisodeEndEvent(ep_id, episode.outcome, episode.output)>>])

\* variant: the steps are walked newest first
episode_to_jsonl_reversed(episode, tid) ==
    LET ep_id == WireId(tid, episode.episode_id)
        n == Len(episode.steps)
    IN  <<EpisodeStartEvent(ep_id)>>
            \o Flatten([i \in 1..n |->
                           StepLines(ep_id, episode.steps[n + 1 - i], n - i)])
            \o <<EpisodeEndEvent(ep_id, episode.outcome, episode.output)>>

\* the events whose encodings episode_to_jsonl returns, in order
episode_to_jsonl(episode, tid) ==
    LET ep_id == WireId(tid, episode.episode_id)
    IN  <<EpisodeStartEvent(ep_id)>>
            \o Flatten([i \in 1..Len(episode.steps) |->
                           StepLines(ep_id, episode.steps[i], i - 1)])
            \o <<EpisodeEndEvent(ep_id, episode.outcome, episode.output)>>

\* A started_at / finished_at value is <<"iso", t>>, the ISO string of the
\* instant t microseconds after the epoch, <<"bad">>, a string that is no ISO
\* date, or None. The time fields of an Episode and of its Steps are held
\* apart from the Episode: times = [started_at, steps, finished_at], where
\* steps[i] is the started_at of the i-th Step.

\* int(datetime.fromisoformat(s).timestamp() * 1000), None when it raises
ParseMs(s) ==
    IF Len(s) = 2 /\ s[1] = "iso" THEN Some(s[2] \div 1000) ELSE None

\* the "timestamp" of an event and the keys of its "meta" mapping (always {};
\* a tool_call event has no meta)
Stamp(timestamp) == [timestamp |-> timestamp, annotations |-> {}]

\* variant: the fallback of episode_end is one second per step
EventStamps_end_by_index(episode, times, now) ==
    LET started == ParseMs(times.started_at)
        start_ts == IF started # None THEN started[1] ELSE now \div 1000
        step_ts(i) == LET parsed == ParseMs(times.steps[i])
                      IN  IF parsed # None THEN parsed[1] ELSE start_ts + (i - 1) * 1000
        finished == ParseMs(times.finished_at)
        end_ts == IF finished # None THEN finished[1]
                  ELSE start_ts + Len(episode.steps) * 1000
    IN  <<Stamp(start_ts)>>
            \o Flatten([i \in 1..Len(episode.steps) |->
                           <<Stamp(step_ts(i))>>
                               \o (IF episode.steps[i].tool_call # None
                                   THEN <<Stamp(step_ts(i) + 500)>> ELSE <<>>)])
            \o <<Stamp(end_ts)>>

\* the timestamps episode_to_jsonl gives to the events it returns, in order;
\* now is the reading of the clock, in microseconds, for the case that the
\* episode's started_at cannot be parsed
EventStamps(episode, times, now) ==
    LET started == ParseMs(times.started_at)
        start_ts == IF started # None THEN started[1] ELSE now \div 1000
        step_ts(i) == LET parsed == ParseMs(times.steps[i])
                      IN  IF parsed # None THEN parsed[1] ELSE start_ts + (i - 1) * 1000
        finished == ParseMs(times.finished_at)
        end_ts == IF finished # None THEN finished[1]
                  ELSE start_ts + Len(episode.steps) * 2000
    IN  <<Stamp(start_ts)>>
            \o Flatten([i \in 1..Len(episode.steps) |->
                           <<Stamp(step_ts(i))>>
                               \o (IF episode.steps[i].tool_call # None
                                   THEN <<Stamp(step_ts(i) + 500)>> ELSE <<>>)])
            \o <<Stamp(end_ts)>>

\* variant: each line and its newline are written by two unbuffered writes
save_trace_unbuffered(episode, tid) ==
    LET lines == episode_to_jsonl(episode, tid)
    IN  Flatten([i \in 1..Len(lines) |->
            << <<Text(json_dumps(lines[i], FALSE, FALSE))>>, <<NL>> >>])

\* save_trace: one f.write(line + "\n") per line inside one open(path, "a")
save_trace(episode, tid) ==
    LET lines == episode_to_jsonl(episode, tid)
    IN  [i \in 1..Len(lines) |-> <<Text(json_dumps(lines[i], FALSE, FALSE)), NL>>]

SaveTrace(p) ==
    /\ role[p] = "harness"
    /\ agent[p].caller = "main"
    /\ agent[p].pc = "returned"
    /\ agent' = [agent EXCEPT ![p].pc = "saving"]
    /\ dest' = open(dest, "a")
    /\ pending' = [pending EXCEPT ![p] = save_trace(agent[p].episode, test_id[p])]
    /\ emitted' = [emitted EXCEPT ![p] = @ \o episode_to_jsonl(agent[p].episode, test_id[p])]
    /\ UNCHANGED <<cfg, fn, role, test_id, rec, calls, effects>>

\* ------------------------------------------------------- record_scenarios
\* record_scenarios with one scenario, after its "await agent.run(...)": the
\* episode run returned is collected, an exception run let escape is caught
\* and the scenario skipped ("continue"); then the trace file is opened with
\* mode "w" and the lines of the collected episodes are written, the
\* scenario id being both the episode id and the test id.
RecordScenarios(p) ==
    /\ role[p] = "harness"
    /\ agent[p].caller = "record_scenarios"
    /\ agent[p].pc \in {"returned", "raised"}
    /\ LET episode == agent[p].episode
           tid == Some(episode.episode_id)
           episodes == IF agent[p].pc = "returned" THEN <<episode>> ELSE <<>>
       IN  /\ agent' = [agent EXCEPT ![p].pc =
                           IF episodes = <<>> THEN "dropped" ELSE "saving"]
           /\ dest' = open(dest, "w")
           /\ pending' = [pending EXCEPT ![p] =
                             Flatten([i \in 1..Len(episodes) |-> save_trace(episodes[i], tid)])]
           /\ emitted' = [emitted EXCEPT ![p] =
                             @ \o Flatten([i \in 1..Len(episodes) |->
                                               episode_to_jsonl(episodes[i], tid)])]
    /\ UNCHANGED <<cfg, fn, role, test_id, rec, calls, effects>>

\* ----------------------------------------------------------- specification
InitWith(c, roles, tids) ==
    /\ cfg = c
    /\ fn = NoFn
    /\ role \in roles
    /\ test_id \in {t \in [Procs -> tids] :
                      \A p \in Procs :
                          IF role[p] = "absent" THEN t[p] = None ELSE t[p] = t["p1"]}
    /\ rec = [p \in Procs |-> NewRecorder]
    /\ agent = [p \in Procs |-> NewAgent]
    /\ pending = [p \in Procs |-> <<>>]
    /\ dest = <<>>
    /\ emitted = [p \in Procs |-> <<>>]
    /\ calls = [p \in Procs |-> <<>>]
    /\ effects = <<>>

Next ==
    \E p \in Procs :
        \/ RecStart(p)
        \/ RecStep(p)
        \/ \E n \in 1..MaxOps : RecToolCall(p, n)
        \/ \E outcome \in Outcomes : RecEnd(p, outcome)
        \/ \E fault \in BOOLEAN : RecExit(p, fault)
        \/ \E m \in 0..MaxIterations, caller \in Callers : RunStart(p, m, caller)
        \/ \E answer \in ModelAnswers : RunIteration(p, answer)
        \/ RunLoopExit(p)
        \/ RunFinish(p)
        \/ SaveTrace(p)
        \/ RecordScenarios(p)
        \/ \E event \in WriterEvents : WriteEvent(p, event)
        \/ \E k \in 1..(MaxIterations * (2 * MaxToolCalls + 1) + 2) : Flush(p, k)

\* one producer, of either kind, alone on the destination
Init ==
    InitWith([ops |-> MaxOps, iters |-> MaxIterations, tools |-> MaxToolCalls,
              rich |-> TRUE],
             {r \in [Procs -> {"recorder", "harness", "writer", "absent"}] :
                 r["p2"] = "absent" /\ r["p1"] # "absent"},
             TestIds)

Spec == Init /\ [][Next]_vars

\* Spec with progress of run: a coroutine that is awaited and whose awaits
\* return goes on to its next statement
RunStep(p) ==
    \/ \E answer \in ModelAnswers : RunIteration(p, answer)
    \/ RunLoopExit(p)
    \/ RunFinish(p)
SpecRun == Init /\ [][Next]_vars /\ \A p \in Procs : WF_vars(RunStep(p))

\* two producers, of any kinds up to their names, appending to the same
\* destination; both are given the same test id, or none is given one
InitShared ==
    InitWith([ops |-> SharedOps, iters |-> SharedIterations, tools |-> SharedToolCalls,
              rich |-> FALSE],
             {r \in [Procs -> {"recorder", "harness"}] :
                 r["p1"] = "harness" => r["p2"] = "harness"},
             {None, Some("t1")})

\* the steps of producers that append: the recorder, and run with save_trace
NextShared ==
    \E p \in Procs :
        \/ RecStart(p)
        \/ RecStep(p)
        \/ \E n \in 1..MaxOps : RecToolCall(p, n)
        \/ \E outcome \in Outcomes : RecEnd(p, outcome)
        \/ \E fault \in BOOLEAN : RecExit(p, fault)
        \/ \E m \in 0..MaxIterations : RunStart(p, m, "main")
        \/ \E answer \in ModelAnswers : RunIteration(p, answer)
        \/ RunLoopExit(p)
        \/ RunFinish(p)
        \/ SaveTrace(p)
        \/ \E k \in 1..(MaxIterations * (2 * MaxToolCalls + 1) + 2) : Flush(p, k)

SpecShared == InitShared /\ [][NextShared]_vars

\* ------------------------------------------------------------ pure functions
\* fn = [op, stage, arg, res]: the function applied, how far the application
\* has got, its input and its results so far
MaxStepIdx == 1001

\* step indices around the places where the number of digits changes
StepIdxs == (1..12) \cup (98..101) \cup (998..MaxStepIdx)

StepIdInputs ==
    {[op |-> "step_id", stage |-> "input", arg |-> <<i, j>>, res |-> <<>>] :
        i, j \in StepIdxs}

\* the ids run gives to the i-th and the j-th step appended to one Episode:
\* step_idx = len(episode.steps) + 1 at the time of the append
FormatStepIds ==
    /\ fn.op = "step_id"
    /\ fn.stage = "input"
    /\ fn' = [fn EXCEPT !.stage = "done",
                        !.res = <<StepId("e1", fn.arg[1]), StepId("e1", fn.arg[2])>>]
    /\ UNCHANGED <<cfg, role, test_id, rec, agent, pending, dest, emitted, calls, effects>>

\* the objects an event is built from
Leaves == {<<"int", 1>>, <<"float", "nan">>, <<"str", "x">>}
Atoms ==
    {<<"None">>, <<"bool", TRUE>>, <<"int", 1>>, <<"float", "1.5">>, <<"float", "nan">>,
     <<"float", "inf">>, <<"float", "-inf">>, <<"str", "x">>, <<"object">>}
Keys == {<<"str", "a">>, <<"str", "b">>, <<"int", 1>>, <<"None">>, <<"tuple">>}

\* the dicts of at most two items with keys in K and values in V
Dicts(K, V) ==
    {<<"dict", <<>> >>}
        \cup {<<"dict", << <<k, v>> >> >> : k \in K, v \in V}
        \cup {<<"dict", << <<kv[1], kv[3]>>, <<kv[2], kv[4]>> >> >> :
                 kv \in {x \in K \X K \X V \X V : x[1] # x[2]}}

\* the lists of at most two items in V
Lists(V) ==
    {<<"list", <<>> >>}
        \cup {<<"list", <<v>> >> : v \in V}
        \cup {<<"list", <<v, w>> >> : v, w \in V}

Values == Atoms \cup Dicts(Keys, Leaves) \cup Lists(Leaves)

\* events: mappings of one item of any value, or of two items
Events ==
    {<<"dict", << <<k, v>> >> >> : k \in Keys, v \in Values}
        \cup Dicts(Keys, {<<"int", 1>>, <<"str", "x">>,
                          <<"list", << <<"int", 1>>, <<"str", "x">> >> >>,
                          <<"dict", << <<<<"str", "b">>, <<"int", 1>> >>,
                                       <<<<"str", "a">>, <<"str", "x">> >> >> >>})

RECURSIVE Reorderings(_)
\* the objects with the keys and values of o, in any insertion order at every
\* nesting level
Reorderings(o) ==
    CASE o[1] = "dict" ->
            LET n == Len(o[2])
                perms == {f \in [1..n -> 1..n] : \A i, j \in 1..n : f[i] = f[j] => i = j}
                vals == {g \in [1..n -> UNION {Reorderings(o[2][i][2]) : i \in 1..n}] :
                            \A i \in 1..n : g[i] \in Reorderings(o[2][i][2])}
            IN  {<<"dict", [i \in 1..n |-> <<o[2][f[i]][1], g[f[i]]>>]>> :
                    f \in perms, g \in vals}
      [] o[1] = "list" ->
            LET n == Len(o[2])
                vals == {g \in [1..n -> UNION {Reorderings(o[2][i]) : i \in 1..n}] :
                            \A i \in 1..n : g[i] \in Reorderings(o[2][i])}
            IN  {<<"list", g>> : g \in vals}
      [] OTHER -> {o}

\* an event and the same event built in another order
EncodeInputs ==
    {[op |-> "json", stage |-> "input", arg |-> <<ab[1], ab[2]>>, res |-> <<>>] :
        ab \in UNION {{<<a, b>> : b \in Reorderings(a)} : a \in Events}}

\* line 13 of write_event on both events
DumpsEvents ==
    /\ fn.op = "json"
    /\ fn.stage = "input"
    /\ fn' = [fn EXCEPT !.stage = "encoded",
                        !.res = <<EncodedLine(fn.arg[1]), EncodedLine(fn.arg[2])>>]
    /\ UNCHANGED <<cfg, role, test_id, rec, agent, pending, dest, emitted, calls, effects>>

\* a reader parses the line of the first event
LoadsLine ==
    /\ fn.op = "json"
    /\ fn.stage = "encoded"
    /\ fn.res[1].err = None
    /\ fn' = [fn EXCEPT !.stage = "parsed",
                        !.res = Append(@, json_loads(fn.res[1].text))]
    /\ UNCHANGED <<cfg, role, test_id, rec, agent, pending, dest, emitted, calls, effects>>

\* --- Episodes handed to episode_to_jsonl
MaxSteps == 2        \* steps of an Episode handed to episode_to_jsonl

\* instants, in microseconds: two less than 500 ms apart, one later
Instants == {0, 300999, 1000000}
\* readings of the clock at the time of the conversion
Nows == {1200000, 2400500}
TimeStrings == {<<"bad">>} \cup {<<"iso", t>> : t \in Instants}

RECURSIVE WithSteps(_, _)
\* an Episode to which steps of the given kinds were appended
WithSteps(episode, kinds) ==
    IF kinds = <<>> THEN episode
    ELSE LET before == WithSteps(episode, SubSeq(kinds, 1, Len(kinds) - 1))
         IN  [before EXCEPT !.steps =
                 Append(@, IF kinds[Len(kinds)] = "llm" THEN LlmStep(before)
                           ELSE ToolStep(before, 1, {"value"}))]

JsonlInput(kinds, outcome, times, now) ==
    [op |-> "jsonl", stage |-> "input",
     arg |-> [episode |-> [WithSteps(NewEpisode("e1"), kinds) EXCEPT
                              !.outcome = outcome,
                              !.output = IF outcome = "pending" THEN None ELSE Some("text"),
                              !.finished_at = IF times.finished_at = None THEN None
                                              ELSE Some("now")],
              times |-> times, now |-> now],
     res |-> <<>>]

\* Episodes of up to MaxSteps steps, with any outcome and any time fields;
\* the clock matters only when the episode's started_at cannot be parsed
StepKinds == UNION {[1..n -> {"llm", "tool"}] : n \in 0..MaxSteps}
TimesOf(kinds) ==
    [started_at : TimeStrings, steps : [1..Len(kinds) -> TimeStrings],
     finished_at : TimeStrings \cup {None}]
JsonlInputs(f) ==
    \E kinds \in StepKinds, outcome \in Outcomes \cup {"pending"}, now \in Nows :
        \E times \in TimesOf(kinds) :
            /\ ParseMs(times.started_at) # None => now = 1200000
            /\ f = JsonlInput(kinds, outcome, times, now)

\* lines = episode_to_jsonl(episode)
EpisodeToJsonl ==
    /\ fn.op = "jsonl"
    /\ fn.stage = "input"
    /\ fn' = [fn EXCEPT !.stage = "done",
                        !.res = [lines |-> episode_to_jsonl(fn.arg.episode, None),
                                 stamps |-> EventStamps(fn.arg.episode, fn.arg.times,
                                                        fn.arg.now)]]
    /\ UNCHANGED <<cfg, role, test_id, rec, agent, pending, dest, emitted, calls, effects>>

\* --- Validator (spec 4.6): the report on a materialized stream
\* A stream is [lines, stamps]: the events and, for each, its timestamp.
Violation(kind, level, episode_id) ==
    [error |-> "StructuralViolation", kind |-> kind, level |-> level,
     episode_id |-> episode_id]

\* the positions in the stream of the events with episode id id
PositionsOf(stream, id) ==
    SelectIdx([i \in 1..Len(stream.lines) |-> stream.lines[i].episode_id], {id}, 1)

\* the episode ids of a stream, in the order of their first event
RECURSIVE IdsOf(_)
IdsOf(lines) ==
    IF lines = <<>> THEN <<>>
    ELSE LET before == IdsOf(SubSeq(lines, 1, Len(lines) - 1))
             id == lines[Len(lines)].episode_id
         IN  IF \E i \in 1..Len(before) : before[i] = id THEN before
             ELSE Append(before, id)

\* variant: every episode that has no terminal event yet at some event of
\* the stream is reported there
MissingTerminal_per_event(id, evs) ==
    [i \in 1..Cardinality({j \in 1..Len(evs) :
                              \A l \in 1..j : evs[l].type # "episode_end"}) |->
        Violation("missing terminal event", "error", id)]

\* (a), terminal part: the episode has no episode_end
MissingTerminal(id, evs) ==
    IF \A i \in 1..Len(evs) : evs[i].type # "episode_end"
    THEN <<Violation("missing terminal event", "error", id)>>
    ELSE <<>>

\* the violations of the episode id, whose events are at positions pos
ValidateEpisode(stream, id, pos) ==
    LET evs == [i \in 1..Len(pos) |-> stream.lines[pos[i]]]
        at(type) == {i \in 1..Len(evs) : evs[i].type = type}
        starts == at("episode_start")
        ends == at("episode_end")
        one(cond, kind) == IF cond THEN <<Violation(kind, "error", id)>> ELSE <<>>
        each(bad, kind, level) ==
            [i \in 1..Cardinality(bad) |-> Violation(kind, level, id)]
    IN  \* (a) exactly one episode_start, before everything
        one(starts = {}, "missing start event")
            \o one(Cardinality(starts) > 1, "duplicate start event")
            \o one(starts # {} /\ ~(1 \in starts), "event before start event")
        \* (a) exactly one episode_end, after everything
            \o MissingTerminal(id, evs)
            \o one(Cardinality(ends) > 1, "duplicate terminal event")
            \o one(ends # {} /\ ~(Len(evs) \in ends), "event after terminal event")
        \* (b) every tool_call refers to a step seen before it
            \o each({i \in at("tool_call") :
                        ~\E j \in at("step") :
                            j < i /\ evs[j].step_id = evs[i].step_id},
                    "out-of-order reference", "error")
        \* (c) timestamps do not decrease: warnings
            \o each({i \in 2..Len(pos) :
                        stream.stamps[pos[i]].timestamp
                            < stream.stamps[pos[i - 1]].timestamp},
                    "decreasing timestamp", "warning")
        \* (d) no step id twice
            \o each({i \in at("step") :
                        \E j \in at("step") :
                            j < i /\ evs[j].step_id = evs[i].step_id},
                    "duplicate ids", "error")

\* the report of the Validator on a stream
Validate(stream) ==
    LET ids == IdsOf(stream.lines)
    IN  Flatten([n \in 1..Len(ids) |->
                    ValidateEpisode(stream, ids[n], PositionsOf(stream, ids[n]))])

MaxBody == 2         \* step and tool_call events of an episode of a validated stream

\* the events of a well-formed episode with k events between start and end:
\* step 1, its tool_call, step 2, its tool_call, ...
EpisodeEvents(id, k) ==
    <<EpisodeStartEvent(id)>>
        \o [i \in 1..k |->
               IF i % 2 = 1 THEN StepEvent(id, <<id, (i + 1) \div 2>>, (i - 1) \div 2)
               ELSE ToolCallEvent(id, <<id, i \div 2>>, {"value"}, None)]
        \o <<EpisodeEndEvent(id, "pass", None)>>

Defects == {"none", "no_end", "no_start", "two_ends", "repeated", "swapped"}
Defective(evs, defect) ==
    CASE defect = "none" -> evs
      [] defect = "no_end" -> SubSeq(evs, 1, Len(evs) - 1)
      [] defect = "no_start" -> Tail(evs)
      [] defect = "two_ends" -> Append(evs, evs[Len(evs)])
      [] defect = "repeated" ->
             IF Len(evs) >= 3 THEN <<evs[1], evs[2]>> \o Tail(evs) ELSE evs
      [] defect = "swapped" ->
             IF Len(evs) >= 4 THEN <<evs[1], evs[3], evs[2]>> \o SubSeq(evs, 4, Len(evs))
             ELSE evs

RECURSIVE Merge(_, _)
\* the events of two episodes, taken in turn
Merge(a, b) == IF a = <<>> THEN b ELSE <<Head(a)>> \o Merge(b, Tail(a))

Layouts == {"one", "ab", "ba", "mixed"}
Laid(a, b, layout) ==
    CASE layout = "one" -> a
      [] layout = "ab" -> a \o b
      [] layout = "ba" -> b \o a
      [] layout = "mixed" -> Merge(a, b)

\* streams of one or two episodes, each well-formed or with one defect, with
\* timestamps that rise along the stream or (late) fall after the first event
ValidatorInputs(f) ==
    \E k1, k2 \in 0..MaxBody, d1, d2 \in Defects, layout \in Layouts, late \in BOOLEAN :
        LET lines == Laid(Defective(EpisodeEvents("e1", k1), d1),
                          Defective(EpisodeEvents("e2", k2), d2), layout)
        IN  f = [op |-> "validate", stage |-> "input",
                 arg |-> [lines |-> lines,
                          stamps |-> [i \in 1..Len(lines) |->
                                         Stamp(IF late /\ i = 1 THEN 9000 ELSE i * 1000)]],
                 res |-> <<>>]

\* report = Validator.validate(stream)
ValidateStream ==
    /\ fn.op = "validate"
    /\ fn.stage = "input"
    /\ fn' = [fn EXCEPT !.stage = "done", !.res = Validate(fn.arg)]
    /\ UNCHANGED <<cfg, role, test_id, rec, agent, pending, dest, emitted, calls, effects>>

\* --- Shape A spans (agent-demo-1) and their normalization (spec 4.3)
MaxMillis == 2       \* whole milliseconds in a span's nanosecond timestamps

\* readings of current_time_nanos(): around the millisecond boundaries
NanoTimes ==
    {k * 1000000 + d : k \in 0..MaxMillis, d \in {0, 1, 499999, 500000, 999999}}

\* the flat span write_span prints: the times as decimal strings
write_span(start_time, end_time) ==
    [startTimeUnixNano |-> Digits(start_time), endTimeUnixNano |-> Digits(end_time)]

\* variant: the milliseconds are rounded to the nearest
NormalizeNanos_rounded(text) == (DigitsValue(text, 0) + 500000) \div 1000000

\* the canonical timestamp of a nanosecond timestamp: integer division by
\* 1,000,000
NormalizeNanos(text) == DigitsValue(text, 0) \div 1000000

SpanInputs(f) ==
    \E start_time, end_time \in NanoTimes :
        f = [op |-> "span", stage |-> "input", arg |-> <<start_time, end_time>>,
             res |-> <<>>]

\* write_span(name, start_time, end_time, parent_span_id, attributes)
WriteSpan ==
    /\ fn.op = "span"
    /\ fn.stage = "input"
    /\ fn' = [fn EXCEPT !.stage = "written",
                        !.res = <<write_span(fn.arg[1], fn.arg[2])>>]
    /\ UNCHANGED <<cfg, role, test_id, rec, agent, pending, dest, emitted, calls, effects>>

\* the Normalizer turns the span's times into canonical timestamps
NormalizeSpan ==
    /\ fn.op = "span"
    /\ fn.stage = "written"
    /\ fn' = [fn EXCEPT !.stage = "normalized",
                        !.res = Append(@, <<NormalizeNanos(fn.res[1].startTimeUnixNano),
                                            NormalizeNanos(fn.res[1].endTimeUnixNano)>>)]
    /\ UNCHANGED <<cfg, role, test_id, rec, agent, pending, dest, emitted, calls, effects>>

InitPure ==
    /\ cfg = [ops |-> 0, iters |-> 0, tools |-> 0, rich |-> FALSE]
    /\ role = [p \in Procs |-> "absent"]
    /\ test_id = [p \in Procs |-> None]
    /\ rec = [p \in Procs |-> NewRecorder]
    /\ agent = [p \in Procs |-> NewAgent]
    /\ pending = [p \in Procs |-> <<>>]
    /\ dest = <<>>
    /\ emitted = [p \in Procs |-> <<>>]
    /\ calls = [p \in Procs |-> <<>>]
    /\ effects = <<>>
    /\ \/ fn \in StepIdInputs
       \/ fn \in EncodeInputs
       \/ JsonlInputs(fn)
       \/ ValidatorInputs(fn)
       \/ SpanInputs(fn)

NextPure ==
    \/ FormatStepIds
    \/ DumpsEvents
    \/ LoadsLine
    \/ EpisodeToJsonl
    \/ ValidateStream
    \/ WriteSpan
    \/ NormalizeSpan

SpecPure == InitPure /\ [][NextPure]_vars

\* ================================================================ properties
Producers == {p \in Procs : role[p] \in {"recorder", "harness"}}

\* the events p's appends have put into the destination, in order
Landed(p) ==
    LET idx == SelectIdx([i \in 1..Len(effects) |-> effects[i].proc], {p}, 1)
    IN  [i \in 1..Len(idx) |-> effects[idx[i]].line.obj]

\* p has emitted its whole stream and every append of it has taken effect
Done(p) ==
    /\ pending[p] = <<>>
    /\ \/ role[p] = "recorder" /\ rec[p].state = "Ended"
       \/ role[p] = "harness" /\ agent[p].pc = "saved"

IsPrefix(s, t) == Len(s) <= Len(t) /\ s = SubSeq(t, 1, Len(s))

TypesOf(s) == [i \in 1..Len(s) |-> s[i].type]

\* the step and tool_call events of a stream, as (type, step_id)
StepEventsOf(s) ==
    LET idx == SelectIdx(TypesOf(s), {"step", "tool_call"}, 1)
    IN  [i \in 1..Len(idx) |-> <<s[idx[i]].type, s[idx[i]].step_id>>]

\* the step and tool_call operations of a calls history that succeeded
StepCallsOf(log) ==
    LET ok == [i \in 1..Len(log) |->
                  IF log[i].op \in {"step", "tool_call"} /\ log[i].raised = None
                  THEN "ok" ELSE "no"]
        idx == SelectIdx(ok, {"ok"}, 1)
    IN  [i \in 1..Len(idx) |-> <<log[idx[i]].op, log[idx[i]].arg>>]

\* C1: the stream a producer leaves in the destination starts with its only
\* episode_start event and, once the episode is ended and written, ends with
\* its only episode_end event, whatever steps and tool calls came between.
C1_OneStartFirstOneEndLast ==
    \A p \in Producers :
        LET s == Landed(p)
        IN  /\ s # <<>> => s[1].type = "episode_start"
            /\ \A i \in 2..Len(s) : s[i].type # "episode_start"
            /\ \A i \in 1..(Len(s) - 1) : s[i].type # "episode_end"
            /\ Done(p) => Len(s) >= 2 /\ s[Len(s)].type = "episode_end"

C1_Witness ==
    \E p \in Producers :
        /\ Done(p)
        /\ role[p] = "harness"
        /\ Len(agent[p].episode.steps) >= 2
        /\ \E i \in 1..Len(Landed(p)) : Landed(p)[i].type = "tool_call"

\* C2: the step and tool_call events of a producer's stream are, in order, the
\* step and tool_call operations performed on its episode: a prefix of them
\* while the stream is being written, all of them once it is complete.
C2_EventOrderIsCallOrder ==
    \A p \in Producers :
        /\ IsPrefix(StepEventsOf(Landed(p)), StepCallsOf(calls[p]))
        /\ Done(p) => StepEventsOf(Landed(p)) = StepCallsOf(calls[p])

C2_Witness ==
    \E p \in Producers :
        /\ Done(p)
        /\ role[p] = "harness"
        /\ Len(StepCallsOf(calls[p])) >= 3

\* C3: every tool_call event of a producer's stream comes after a step event
\* of the same stream that declares the step id it references.
C3_ToolCallAfterItsStep ==
    \A p \in Producers :
        LET s == Landed(p)
        IN  \A i \in 1..Len(s) :
                s[i].type = "tool_call" =>
                    \E j \in 1..(i - 1) :
                        s[j].type = "step" /\ s[j].step_id = s[i].step_id

C3_Witness ==
    \E p \in Producers :
        /\ role[p] = "harness"
        /\ \E i \in 1..Len(Landed(p)) : Landed(p)[i].type = "tool_call"

Recorders == {p \in Procs : role[p] = "recorder"}

Last(s) == s[Len(s)]

\* the step taken is a call of one of ops on p's recorder
Called(p, ops) ==
    /\ Len(calls'[p]) = Len(calls[p]) + 1
    /\ Last(calls'[p]).op \in ops

CountType(s, type) == Cardinality({i \in 1..Len(s) : s[i].type = type})

\* C4: a with-block left through an unhandled fault before end was called
\* makes the recorder emit one episode_end event with outcome "error"; it is
\* the only episode_end of the stream and, once written, its last line.
C4_FaultExitEmitsErrorEnd ==
    \A p \in Recorders :
        (/\ calls[p] # <<>>
         /\ Last(calls[p]).op = "exit"
         /\ Last(calls[p]).arg = <<TRUE>>
         /\ Last(calls[p]).pre.state # "Ended")
        => /\ emitted[p] # <<>>
           /\ Last(emitted[p]).type = "episode_end"
           /\ Last(emitted[p]).outcome = "error"
           /\ CountType(emitted[p], "episode_end") = 1
           /\ pending[p] = <<>> => Landed(p) = emitted[p]

C4_Witness ==
    \E p \in Recorders :
        /\ calls[p] # <<>>
        /\ Last(calls[p]).op = "exit"
        /\ Last(calls[p]).arg = <<TRUE>>
        /\ Last(calls[p]).pre.state = "Open"
        /\ Last(calls[p]).pre.issued = 0
        /\ pending[p] = <<>>

\* C5: end on a recorder that is already Ended, called explicitly or by the
\* exit of the with-block, raises nothing, emits nothing, writes nothing and
\* keeps the outcome of the first end.
C5_EndIdempotent ==
    [][\A p \in Recorders :
          (rec[p].state = "Ended" /\ Called(p, {"end", "exit"}))
          => /\ Last(calls'[p]).raised = None
             /\ rec'[p].state = "Ended"
             /\ rec'[p].outcome = rec[p].outcome
             /\ emitted'[p] = emitted[p]
             /\ pending' = pending
             /\ dest' = dest]_vars

C5_Witness ==
    \E p \in Recorders :
        \E i, j \in 1..Len(calls[p]) :
            /\ i < j
            /\ calls[p][i].op = "end" /\ calls[p][i].pre.state = "Ended"
            /\ calls[p][j].op = "exit" /\ calls[p][j].pre.state = "Ended"

\* C6: tool_call with a step id that step() never returned raises
\* DanglingReferenceError, emits and writes nothing, and changes nothing of
\* the recorder but the error it reports.
C6_DanglingToolCallHasNoEffect ==
    [][\A p \in Recorders :
          (Called(p, {"tool_call"}) /\ Last(calls'[p]).arg[2] > rec[p].issued)
          => /\ Last(calls'[p]).raised = Some("DanglingReferenceError")
             /\ rec'[p] = [rec[p] EXCEPT !.raised = Some("DanglingReferenceError")]
             /\ emitted'[p] = emitted[p]
             /\ pending' = pending
             /\ dest' = dest]_vars

C6_Witness ==
    \E p \in Recorders :
        \E i, j \in 1..Len(calls[p]) :
            /\ i < j
            /\ calls[p][i].raised = Some("DanglingReferenceError")
            /\ calls[p][j].op \in {"step", "tool_call"}
            /\ calls[p][j].raised = None
            /\ Done(p)

Rank(state) ==
    CASE state = "Unstarted" -> 0
      [] state = "Open" -> 1
      [] state = "Recording" -> 2
      [] state = "Ended" -> 3

\* C7: a recorder's state never moves backwards in Open, Recording, Ended;
\* step is accepted exactly in Open and Recording and leaves it Recording;
\* end leaves it Ended; in Ended nothing changes the state or emits an event.
C7_StateMachine ==
    [][\A p \in Recorders :
          /\ Rank(rec'[p].state) >= Rank(rec[p].state)
          /\ Called(p, {"step"}) =>
                /\ Last(calls'[p]).raised = None <=> rec[p].state \in {"Open", "Recording"}
                /\ Last(calls'[p]).raised = None => rec'[p].state = "Recording"
          /\ Called(p, {"end", "exit"}) => rec'[p].state = "Ended"
          /\ rec'[p].state = "Recording" /\ rec[p].state # "Recording" =>
                rec[p].state = "Open" /\ Called(p, {"step"})
          /\ rec[p].state = "Ended" =>
                rec'[p].state = "Ended" /\ emitted'[p] = emitted[p]]_vars

C7_Witness ==
    \E p \in Recorders :
        /\ rec[p].state = "Ended"
        /\ \E i, j \in 1..Len(calls[p]) :
              /\ calls[p][i].pre.state = "Recording"
              /\ calls[p][j].pre.state = "Ended"
              /\ calls[p][j].op = "step"

\* the encoded lines the producers have handed to their files
HandedLines ==
    UNION {{json_dumps(emitted[p][i], role[p] = "recorder", role[p] = "recorder") :
               i \in 1..Len(emitted[p])} : p \in Producers}

\* C8: whatever the interleaving of the writers, the destination is at every
\* moment a sequence of complete lines: the encoding of one emitted event
\* followed by one newline, again and again, and nothing else.
C8_NoTornLine ==
    LET handed == HandedLines
    IN  /\ Len(dest) % 2 = 0
        /\ \A i \in 1..Len(dest) :
              IF i % 2 = 1
              THEN dest[i][1] = "text" /\ dest[i][2] \in handed
              ELSE dest[i] = NL

\* lines of two writers alternate in the destination
Interleaved(p, q) ==
    \E i, j, k \in 1..Len(effects) :
        /\ i < j /\ j < k
        /\ effects[i].proc = p /\ effects[j].proc = q /\ effects[k].proc = p

C8_Witness ==
    \E p, q \in Recorders :
        /\ p # q
        /\ Interleaved(p, q)
        /\ pending[q] # <<>>

\* C9: the destination only grows at its end, and the append that completes
\* a write_event call adds exactly the encoded line of the event and one
\* newline after everything written before it, by whichever writer.
C9_WriteEventOnlyAppendsOneLine ==
    [][/\ IsPrefix(dest, dest')
       /\ \A p \in Recorders :
             (pending[p] # <<>> /\ pending'[p] = <<>>)
             => LET line == json_dumps(Last(emitted[p]), TRUE, TRUE)
                IN  /\ dest' = dest \o <<Text(line), NL>>
                    /\ effects' = Append(effects, [proc |-> p, line |-> line])]_vars

C9_Witness ==
    \E p, q \in Recorders :
        /\ p # q
        /\ Len(effects) >= 3
        /\ Last(effects).proc = p
        /\ effects[Len(effects) - 1].proc = q
        /\ pending[p] = <<>> /\ pending[q] = <<>>

RECURSIVE SplitLines(_, _)
\* the lines of a file content: the text before each newline, and the
\* unterminated text after the last one if there is any
SplitLines(toks, cur) ==
    IF toks = <<>> THEN (IF cur = <<>> THEN <<>> ELSE <<cur>>)
    ELSE IF Head(toks) = NL THEN <<cur>> \o SplitLines(Tail(toks), <<>>)
    ELSE SplitLines(Tail(toks), Append(cur, Head(toks)[2]))

Carries(line, id) == \E k \in 1..Len(line) : line[k].obj.episode_id = id

\* the lines of the destination that carry episode id id, in order
LinesWithId(id) ==
    LET lines == SplitLines(dest, <<>>)
        flag == [i \in 1..Len(lines) |-> IF Carries(lines[i], id) THEN "y" ELSE "n"]
        idx == SelectIdx(flag, {"y"}, 1)
    IN  [i \in 1..Len(idx) |-> lines[idx[i]]]

WireIdOf(p) == WireId(test_id[p], EpisodeIdOf(p))

\* the lines with p's episode id are whole lines and spell p's stream
OwnLinesAreOwnStream(p) ==
    LET mine == LinesWithId(WireIdOf(p))
        objs == [i \in 1..Len(mine) |-> mine[i][1].obj]
    IN  /\ \A i \in 1..Len(mine) : Len(mine[i]) = 1
        /\ IsPrefix(objs, emitted[p])
        /\ Done(p) =>
              /\ objs = emitted[p]
              /\ objs[1].type = "episode_start"
              /\ Last(objs).type = "episode_end"
              /\ CountType(objs, "episode_start") = 1
              /\ CountType(objs, "episode_end") = 1

\* C10: when the producers sharing a destination use distinct episode ids on
\* the wire, the lines carrying one episode id are, in order, the stream of
\* that episode, its episode_start first and its episode_end last, whatever
\* the interleaving with the other producer.
C10_PerEpisodeSubsequence ==
    \A p \in Producers :
        (\A q \in Producers \ {p} : WireIdOf(q) # WireIdOf(p))
        => OwnLinesAreOwnStream(p)

C10_Witness ==
    \E p, q \in Producers :
        /\ p # q
        /\ WireIdOf(p) # WireIdOf(q)
        /\ role[p] = "harness"
        /\ Done(p) /\ Done(q)
        /\ Interleaved(p, q)
        /\ Interleaved(q, p)

\* the statement without its condition: it fails for two producers that put
\* the same id on the wire (same test id, distinct Episode.episode_id)
C10_EvenWithSharedId == \A p \in Producers : OwnLinesAreOwnStream(p)

\* -------------------------------------------------- the harness's episodes
Harnesses == {p \in Procs : role[p] = "harness"}

\* run has returned its Episode to the caller
Returned(p) == agent[p].pc \in {"returned", "saving", "saved"}

\* C11: every episode the harness starts gets its terminal event: whatever
\* fails during run (the model call, a tool, the parsing of a tool call's
\* arguments) run returns an Episode with outcome error, no started episode
\* is dropped, and the written stream of the episode ends with episode_end.
C11_EveryStartedEpisodeEnds ==
    \A p \in Harnesses :
        /\ agent[p].pc \notin {"raised", "dropped"}
        /\ Returned(p) /\ agent[p].faults # {} => agent[p].episode.outcome = "error"
        /\ agent[p].pc = "saved" =>
              /\ Landed(p) # <<>>
              /\ Last(Landed(p)).type = "episode_end"
              /\ Last(Landed(p)).outcome = agent[p].episode.outcome

\* C12: once run has assigned a terminal value to Episode.outcome, the
\* outcome is not assigned another value.
C12_OutcomeAssignedOnce ==
    [][\A p \in Harnesses :
          agent[p].episode.outcome # "pending"
          => agent'[p].episode.outcome = agent[p].episode.outcome]_vars

\* C13: an Episode run has returned (its outcome is then not pending) has a
\* finished_at, and has an output unless its outcome is error.
C13_ReturnedEpisodeIsComplete ==
    \A p \in Harnesses :
        Returned(p) =>
            /\ agent[p].episode.outcome # "pending"
            /\ agent[p].episode.finished_at # None
            /\ agent[p].episode.outcome # "error" => agent[p].episode.output # None

\* the test id p's caller passes to episode_to_jsonl
PassedTestId(p) ==
    IF agent[p].caller = "record_scenarios"
    THEN Some(agent[p].episode.episode_id) ELSE test_id[p]

\* every event p has emitted carries the episode id wire
AllCarry(p, wire) == \A i \in 1..Len(emitted[p]) : emitted[p][i].episode_id = wire

ToolCallsOf(p) ==
    LET steps == agent[p].episode.steps
    IN  {steps[i].tool_call[1] : i \in {j \in 1..Len(steps) : steps[j].tool_call # None}}

\* C20: for every recorded ToolCall, success is true exactly when the tool
\* result has no error key and error is set exactly when success is false;
\* the error field of an emitted tool_call event is null only on success.
C20_ErrorIffNotSuccess ==
    \A p \in Harnesses :
        /\ \A tc \in ToolCallsOf(p) :
              /\ tc.success <=> ~("error" \in tc.tool_result)
              /\ tc.error # None <=> ~tc.success
        /\ \A i \in 1..Len(emitted[p]) :
              emitted[p][i].type = "tool_call" =>
                  (emitted[p][i].error = None <=> ~("error" \in emitted[p][i].result.value))

\* ------------------------------------------------------------------ step ids
RECURSIVE Pow10(_)
Pow10(k) == IF k = 0 THEN 1 ELSE 10 * Pow10(k - 1)

\* the ids of two different steps of one Episode have been formatted, the
\* step with the smaller index having been appended first
StepIdsFormatted ==
    /\ fn.op = "step_id"
    /\ fn.stage = "done"
    /\ fn.arg[1] < fn.arg[2]

\* the id res is the episode id, "_step_" and the index idx in decimal
BuiltFrom(res, idx) ==
    /\ SubSeq(res, 1, 2) = <<"e1", "_step_">>
    /\ DigitsValue(SubSeq(res, 3, Len(res)), 0) = idx

\* C19 as claimed: within one Episode the step ids are pairwise distinct and,
\* for any number of steps, their lexical order is the order the steps were
\* appended in; each id is built from the episode id and the step's 1-based
\* index.
C19_LexicalOrderForAnyCount ==
    StepIdsFormatted =>
        /\ fn.res[1] # fn.res[2]
        /\ StrLess(fn.res[1], fn.res[2])
        /\ BuiltFrom(fn.res[1], fn.arg[1]) /\ BuiltFrom(fn.res[2], fn.arg[2])

\* C19: within one Episode the step ids are pairwise distinct, each built
\* from the episode id and the step's 1-based index; among the first 999
\* steps (indices of at most StepIdWidth digits) their lexical order is the
\* order the steps were appended in.
C19_LexicalOrderUpToWidth ==
    StepIdsFormatted =>
        /\ fn.res[1] # fn.res[2]
        /\ fn.arg[2] < Pow10(StepIdWidth) => StrLess(fn.res[1], fn.res[2])
        /\ BuiltFrom(fn.res[1], fn.arg[1]) /\ BuiltFrom(fn.res[2], fn.arg[2])

\* the padding matters: a one-digit and a three-digit index, in order
C19_Witness ==
    /\ StepIdsFormatted
    /\ fn.arg[1] < 10
    /\ fn.arg[2] >= 100 /\ fn.arg[2] < Pow10(StepIdWidth)
    /\ StrLess(fn.res[1], fn.res[2])
    /\ Len(fn.res[1]) = Len(fn.res[2])

\* ------------------------------------------------------------- the encoder
RECURSIVE HasNonFinite(_)
\* o contains, at some nesting level, a float that is not finite
HasNonFinite(o) ==
    CASE o[1] = "float" -> o[2] \in {"nan", "inf", "-inf"}
      [] o[1] = "list" -> \E i \in 1..Len(o[2]) : HasNonFinite(o[2][i])
      [] o[1] = "dict" -> \E i \in 1..Len(o[2]) : HasNonFinite(o[2][i][2])
      [] OTHER -> FALSE

RECURSIVE HasNonStringKey(_)
\* o contains, at some nesting level, a mapping key that is not a string
HasNonStringKey(o) ==
    CASE o[1] = "list" -> \E i \in 1..Len(o[2]) : HasNonStringKey(o[2][i])
      [] o[1] = "dict" ->
            \E i \in 1..Len(o[2]) : o[2][i][1][1] # "str" \/ HasNonStringKey(o[2][i][2])
      [] OTHER -> FALSE

RECURSIVE JsonTyped(_)
\* o is built from strings, numbers, booleans, string-keyed mappings and
\* sequences only
JsonTyped(o) ==
    CASE o[1] \in {"str", "int", "float", "bool"} -> TRUE
      [] o[1] = "list" -> \A i \in 1..Len(o[2]) : JsonTyped(o[2][i])
      [] o[1] = "dict" ->
            \A i \in 1..Len(o[2]) : o[2][i][1][1] = "str" /\ JsonTyped(o[2][i][2])
      [] OTHER -> FALSE

RECURSIVE KeysAscending(_)
\* in the parsed value v the keys of every mapping come in ascending order
KeysAscending(v) ==
    CASE v[1] = "list" -> \A i \in 1..Len(v[2]) : KeysAscending(v[2][i])
      [] v[1] = "dict" ->
            /\ \A i \in 1..Len(v[2]) : KeysAscending(v[2][i][2])
            /\ \A i \in 1..(Len(v[2]) - 1) :
                  StrRank(v[2][i][1][2]) < StrRank(v[2][i + 1][1][2])
      [] OTHER -> TRUE

\* the encoder has been applied to the two events of fn.arg
Encoded == fn.op = "json" /\ fn.stage \in {"encoded", "parsed"}

\* C14: encoding fails, with an error and not a silent coercion, whenever the
\* event contains at any nesting level a non-finite number or a mapping key
\* that is not a string.
C14_RejectsNonFiniteAndNonStringKeys ==
    Encoded /\ (HasNonFinite(fn.arg[1]) \/ HasNonStringKey(fn.arg[1]))
        => fn.res[1].err # None

\* C16: two events with the same keys and values, inserted in different
\* orders, encode to the same line (or both fail the same way); the line has
\* no blanks, and the keys of a string-keyed event come sorted at every level.
C16_InsertionOrderDoesNotMatter ==
    /\ Encoded =>
          /\ fn.res[1] = fn.res[2]
          /\ \A i \in 1..Len(fn.res[1].text) : fn.res[1].text[i][1] # "ws"
    /\ fn.op = "json" /\ fn.stage = "parsed" /\ ~HasNonStringKey(fn.arg[1]) =>
          fn.res[3] # None /\ KeysAscending(fn.res[3][1])

\* an event and a reordering of it at both nesting levels have been encoded
C16_Witness ==
    /\ Encoded
    /\ fn.res[1].err = None
    /\ fn.res[1] = fn.res[2]
    /\ Len(fn.arg[1][2]) = 2
    /\ fn.arg[1][2][1][1] = fn.arg[2][2][2][1]
    /\ \E i, j \in 1..2 :
          /\ fn.arg[1][2][i][2][1] = "dict"
          /\ fn.arg[2][2][j][2][1] = "dict"
          /\ fn.arg[1][2][i][2] # fn.arg[2][2][j][2]
          /\ PyEq(fn.arg[1][2][i][2], fn.arg[2][2][j][2])

\* C17: for every event built from strings, numbers, booleans, nested
\* string-keyed mappings and sequences, the encoder produces a line, and
\* parsing the line gives a value equal to the event in all fields.
C17_RoundTrip ==
    /\ Encoded /\ JsonTyped(fn.arg[1]) => fn.res[1].err = None
    /\ fn.op = "json" /\ fn.stage = "parsed" /\ JsonTyped(fn.arg[1]) =>
          fn.res[3] # None /\ PyEq(fn.res[3][1], fn.arg[1])

\* the same for the events C14 does not want encoded at all left aside: it
\* holds, the round trip is lost on NaN only
C17_RoundTripOfFinite ==
    fn.op = "json" /\ fn.stage = "parsed" /\ JsonTyped(fn.arg[1])
        /\ ~HasNonFinite(fn.arg[1])
    => fn.res[3] # None /\ PyEq(fn.res[3][1], fn.arg[1])

\* ------------------------------------------------------------- write_event
Writers == {p \in Procs : role[p] = "writer"}

\* the events of the calls in cs that did not raise, in order
RECURSIVE Written(_)
Written(cs) ==
    IF cs = <<>> THEN <<>>
    ELSE (IF Head(cs).raised = None THEN <<Head(cs).arg>> ELSE <<>>) \o Written(Tail(cs))

\* C15: a write_event call whose event cannot be encoded appends nothing, the
\* destination is after the call as it was before; every call with an event
\* that can be encoded succeeds, also after failed calls, and the destination
\* holds the lines of the calls that succeeded and no others.
C15_FailedWriteAppendsNothing ==
    [][\A p \in Writers :
          /\ Len(calls'[p]) > Len(calls[p]) =>
                LET call == Last(calls'[p])
                IN  /\ call.raised # None <=> EncodedLine(call.arg).err # None
                    /\ call.raised # None =>
                          dest' = dest /\ pending' = pending /\ effects' = effects
                    /\ call.raised = None => pending'[p] # <<>>
          /\ pending'[p] = <<>> =>
                /\ Landed(p)' = Written(calls'[p])
                /\ dest' = Flatten([i \in 1..Len(Landed(p)') |->
                                      <<Text(json_dumps(Landed(p)'[i], TRUE, TRUE)), NL>>])]_vars

\* a call failed with a line already in the destination, and a later call
\* has appended its line
C15_Witness ==
    \E p \in Writers :
        /\ pending[p] = <<>>
        /\ \E i, j, k \in 1..Len(calls[p]) :
              /\ i < j /\ j < k
              /\ calls[p][i].raised = None
              /\ calls[p][j].raised # None
              /\ calls[p][k].raised = None
        /\ Len(Landed(p)) >= 2

\* ------------------------------------------------------------------- C21
\* the tool invocations of a turn <<k, bad>> that were carried out: all k, or
\* those before the request whose arguments could not be parsed
Invoked(turn) == IF turn[2] = 0 THEN turn[1] ELSE turn[2] - 1

\* the steps a history of turns stands for: 0 for the llm step of a turn,
\* then the numbers 1, 2, ... of its invocations in request order
StepsOfTurns(turns) ==
    Flatten([t \in 1..Len(turns) |->
                <<0>> \o [i \in 1..Invoked(turns[t]) |-> i]])

\* what a recorded step is: 0 for an llm step, the request number for a tool step
RequestOf(step) ==
    IF step.span_kind = "tool" /\ step.tool_call # None
    THEN step.tool_call[1].tool_args ELSE 0

\* C21: a Step carries a ToolCall exactly when its span_kind is "tool" (and
\* the field holds at most one); the k tool invocations of one model turn are
\* recorded as k tool Steps, in request order, directly after the llm Step of
\* that turn.
C21_OneToolStepPerInvocation ==
    \A p \in Harnesses :
        LET steps == agent[p].episode.steps
        IN  /\ \A i \in 1..Len(steps) :
                   /\ steps[i].span_kind \in {"llm", "tool"}
                   /\ Len(steps[i].tool_call) <= 1
                   /\ steps[i].tool_call # None <=> steps[i].span_kind = "tool"
            /\ [i \in 1..Len(steps) |-> RequestOf(steps[i])]
                   = StepsOfTurns(agent[p].turns)

\* a turn that requested two tool invocations, both carried out, was recorded
C21_Witness ==
    \E p \in Harnesses :
        /\ \E t \in 1..Len(agent[p].turns) : agent[p].turns[t] = <<2, 0>>
        /\ Len(agent[p].episode.steps) >= 3

\* ------------------------------------------------------------------- C22
\* the operations performed on p's episode between start and end were: a
\* step, a second step, a tool_call attached to the second step
TwoStepsThenToolCall(p) ==
    LET c == StepCallsOf(calls[p])
    IN  /\ Len(c) = 3
        /\ c[1][1] = "step" /\ c[2][1] = "step" /\ c[1][2] # c[2][2]
        /\ c[3] = <<"tool_call", c[2][2]>>

\* the operations were: one step, a tool_call attached to it
StepThenItsToolCall(p) ==
    LET c == StepCallsOf(calls[p])
    IN  /\ Len(c) = 2
        /\ c[1][1] = "step"
        /\ c[2] = <<"tool_call", c[1][2]>>

\* the outcome p's episode was ended with
EndedWith(p) ==
    IF role[p] = "recorder" THEN rec[p].outcome[1] ELSE agent[p].episode.outcome

\* C22 as stated: an episode of one llm step followed by one tool step with
\* its tool_call, started and ended, is a stream of exactly 4 lines, the first
\* the episode_start event and the fourth the episode_end event with the
\* outcome the episode was ended with.
C22_FourLines ==
    \A p \in Producers :
        Done(p) /\ TwoStepsThenToolCall(p)
        => /\ Len(Landed(p)) = 4
           /\ Landed(p)[1].type = "episode_start"
           /\ Landed(p)[4].type = "episode_end"
           /\ Landed(p)[4].outcome = EndedWith(p)

\* C22, amended: that episode is a stream of exactly 5 lines: episode_start,
\* the two step events, the tool_call event, and the episode_end event with
\* the outcome the episode was ended with. The stream has 4 lines when the
\* tool_call is attached to the only step of the episode.
C22_OneLinePerStepAndToolCall ==
    \A p \in Producers :
        /\ Done(p) /\ TwoStepsThenToolCall(p)
           => /\ TypesOf(Landed(p))
                    = <<"episode_start", "step", "step", "tool_call", "episode_end">>
              /\ Landed(p)[5].outcome = EndedWith(p)
        /\ Done(p) /\ StepThenItsToolCall(p)
           => /\ TypesOf(Landed(p))
                    = <<"episode_start", "step", "tool_call", "episode_end">>
              /\ Landed(p)[4].outcome = EndedWith(p)

\* a harness wrote the stream of an episode of one llm step and one tool step
C22_Witness ==
    \E p \in Harnesses :
        /\ Done(p) /\ TwoStepsThenToolCall(p)
        /\ agent[p].episode.steps[1].span_kind = "llm"
        /\ agent[p].episode.steps[2].span_kind = "tool"

\* a recorder ended with "pass" after a step, a tool step and its tool_call,
\* and another after one step and the tool_call attached to it
C22_RecorderTwoSteps ==
    \E p \in Recorders :
        Done(p) /\ TwoStepsThenToolCall(p) /\ EndedWith(p) = "pass"
C22_RecorderOneStep ==
    \E p \in Recorders :
        Done(p) /\ StepThenItsToolCall(p) /\ EndedWith(p) = "pass"

\* ------------------------------------------------------------------- C23
\* episode_to_jsonl has been applied to the Episode fn.arg.episode
Converted == fn.op = "jsonl" /\ fn.stage = "done"

\* C23: whatever Episode is handed to episode_to_jsonl, every episode_end
\* event it returns has an outcome in {pass, fail, error}; "pending" is never
\* put on the wire.
C23_NoPendingOnTheWire ==
    Converted =>
        \A i \in 1..Len(fn.res.lines) :
            fn.res.lines[i].type = "episode_end"
                => fn.res.lines[i].outcome \in Outcomes

\* what holds instead: the outcome is copied from the Episode unchecked ...
C23_OutcomeIsCopied ==
    Converted =>
        fn.res.lines[Len(fn.res.lines)].outcome = fn.arg.episode.outcome

\* ... and the streams of the Episodes that run returned (Spec) have a
\* terminal outcome
C23_NoPendingFromRun ==
    \A p \in Harnesses :
        \A i \in 1..Len(emitted[p]) :
            emitted[p][i].type = "episode_end" => emitted[p][i].outcome \in Outcomes

\* ------------------------------------------------------------------- C24
\* the violations of a report that are about episode id
ViolationsOf(report, id) ==
    SelectIdx([i \in 1..Len(report) |-> report[i].episode_id], {id}, 1)

\* the events of episode id form a well-formed episode: one episode_start
\* first, one episode_end last, steps with fresh ids, tool calls after their
\* steps, timestamps that do not decrease
WellFormed(stream, id) ==
    LET pos == PositionsOf(stream, id)
        ev(i) == stream.lines[pos[i]]
        n == Len(pos)
    IN  /\ n >= 2
        /\ ev(1).type = "episode_start" /\ ev(n).type = "episode_end"
        /\ \A i \in 2..(n - 1) : ev(i).type \in {"step", "tool_call"}
        /\ \A i, j \in 2..(n - 1) :
               i < j /\ ev(i).type = "step" /\ ev(j).type = "step"
                   => ev(i).step_id # ev(j).step_id
        /\ \A i \in 2..(n - 1) :
               ev(i).type = "tool_call"
                   => \E j \in 2..(i - 1) :
                          ev(j).type = "step" /\ ev(j).step_id = ev(i).step_id
        /\ \A i \in 2..n :
               stream.stamps[pos[i]].timestamp >= stream.stamps[pos[i - 1]].timestamp

NoTerminal(stream, id) ==
    /\ PositionsOf(stream, id) # <<>>
    /\ \A i \in 1..Len(stream.lines) :
           stream.lines[i].episode_id = id => stream.lines[i].type # "episode_end"

\* the ids of a stream, as a set
IdSet(stream) == {stream.lines[i].episode_id : i \in 1..Len(stream.lines)}

\* C24: given a stream in which one episode id has no episode_end and every
\* other episode id is well-formed, the Validator reports exactly one
\* StructuralViolation of kind "missing terminal event" for that id and no
\* violation for any other id, and the stream is what it was.
C24_OneMissingTerminalReported ==
    [][(fn.op = "validate" /\ fn.stage = "input" /\ fn'.stage = "done")
       => /\ fn'.arg = fn.arg
          /\ \A id \in IdSet(fn.arg) :
                 (/\ NoTerminal(fn.arg, id)
                  /\ \A other \in IdSet(fn.arg) \ {id} : WellFormed(fn.arg, other))
                 => /\ Cardinality({i \in 1..Len(fn'.res) :
                                       /\ fn'.res[i].episode_id = id
                                       /\ fn'.res[i].error = "StructuralViolation"
                                       /\ fn'.res[i].kind = "missing terminal event"}) = 1
                    /\ \A other \in IdSet(fn.arg) \ {id} :
                           ViolationsOf(fn'.res, other) = <<>>]_vars

\* a stream of two interleaved episodes, the first of which has a step and a
\* tool_call but no episode_end, has been validated
C24_Witness ==
    /\ fn.op = "validate" /\ fn.stage = "done"
    /\ NoTerminal(fn.arg, "e1") /\ WellFormed(fn.arg, "e2")
    /\ Len(PositionsOf(fn.arg, "e1")) >= 3
    /\ \E i, j, k \in 1..Len(fn.arg.lines) :
           /\ i < j /\ j < k
           /\ fn.arg.lines[i].episode_id = "e1"
           /\ fn.arg.lines[j].episode_id = "e2"
           /\ fn.arg.lines[k].episode_id = "e1"
    /\ Len(fn.res) = 1

\* ------------------------------------------------------------ C25, C26, C30
\* the position, in the lines returned, of the step event of the i-th Step
StepPos(i) ==
    SelectIdx([l \in 1..Len(fn.res.lines) |-> fn.res.lines[l].type], {"step"}, 1)[i]

TimestampAt(l) == fn.res.stamps[l].timestamp

\* every event of the Episode was returned: its start, one step event per
\* Step, one tool_call event per ToolCall, its end
AllEventsEmitted ==
    LET steps == fn.arg.episode.steps
    IN  /\ Len(fn.res.stamps) = Len(fn.res.lines)
        /\ Len(fn.res.lines)
               = 2 + Len(steps)
                   + Cardinality({i \in 1..Len(steps) : steps[i].tool_call # None})
        /\ fn.res.lines[1].type = "episode_start"
        /\ fn.res.lines[Len(fn.res.lines)].type = "episode_end"

\* the step events whose timestamp could not be parsed are put at the
\* episode's start timestamp plus idx * 1000 ms
StepFallbackByIndex ==
    \A i \in 1..Len(fn.arg.episode.steps) :
        ParseMs(fn.arg.times.steps[i]) = None
            => TimestampAt(StepPos(i)) = TimestampAt(1) + (i - 1) * 1000

\* C25 as stated: when the timestamp of an event cannot be parsed the
\* conversion does not fail, every event is still returned, and the event is
\* put at the episode's start timestamp plus index * 1000 ms, index being the
\* event's position in the episode's sequence (for a step its idx; for the
\* episode_end event the number of steps, or its position in the stream).
C25_FallbackIsStartPlusIndexSeconds ==
    Converted =>
        /\ AllEventsEmitted
        /\ StepFallbackByIndex
        /\ ParseMs(fn.arg.times.finished_at) = None
               => TimestampAt(Len(fn.res.lines))
                      \in {TimestampAt(1) + Len(fn.arg.episode.steps) * 1000,
                           TimestampAt(1) + (Len(fn.res.lines) - 1) * 1000}

\* C25, amended: the conversion never fails and returns every event. A step
\* whose started_at cannot be parsed is put at the episode's start timestamp
\* plus idx * 1000 ms (idx its 0-based position among the steps) and its
\* tool_call event 500 ms after it; an episode_end whose finished_at cannot be
\* parsed is put at the start timestamp plus 2000 ms per step; a start whose
\* started_at cannot be parsed is put at the current time. Timestamps that
\* can be parsed are kept, cut to whole milliseconds.
C25_FallbackTimestamps ==
    Converted =>
        LET steps == fn.arg.episode.steps
            times == fn.arg.times
            kept(s, l) == ParseMs(s) # None => TimestampAt(l) = s[2] \div 1000
        IN  /\ AllEventsEmitted
            /\ StepFallbackByIndex
            /\ \A i \in 1..Len(steps) :
                   /\ kept(times.steps[i], StepPos(i))
                   /\ steps[i].tool_call # None
                          => TimestampAt(StepPos(i) + 1) = TimestampAt(StepPos(i)) + 500
            /\ kept(times.finished_at, Len(fn.res.lines))
            /\ ParseMs(times.finished_at) = None
                   => TimestampAt(Len(fn.res.lines)) = TimestampAt(1) + Len(steps) * 2000
            /\ kept(times.started_at, 1)
            /\ ParseMs(times.started_at) = None => TimestampAt(1) = fn.arg.now \div 1000

\* an Episode was converted whose second step, a tool step, and whose
\* finished_at have timestamps that cannot be parsed
C25_Witness ==
    /\ Converted
    /\ Len(fn.arg.episode.steps) = 2
    /\ fn.arg.episode.steps[2].tool_call # None
    /\ ParseMs(fn.arg.times.started_at) # None
    /\ ParseMs(fn.arg.times.steps[1]) # None
    /\ ParseMs(fn.arg.times.steps[2]) = None
    /\ ParseMs(fn.arg.times.finished_at) = None

\* the lines whose timestamp is a fallback value: the episode_start, step and
\* episode_end events whose own time field could not be parsed
SubstitutedLines ==
    (IF ParseMs(fn.arg.times.started_at) = None THEN {1} ELSE {})
        \cup {StepPos(i) : i \in {j \in 1..Len(fn.arg.episode.steps) :
                                     ParseMs(fn.arg.times.steps[j]) = None}}
        \cup (IF ParseMs(fn.arg.times.finished_at) = None
              THEN {Len(fn.res.lines)} ELSE {})

\* C26: an event whose timestamp was replaced by the fallback value carries a
\* warning annotation in the output, so that the substitution can be seen
\* (and reported as a warning) by whoever reads the stream.
C26_FallbackIsAnnotated ==
    Converted =>
        \A l \in SubstitutedLines : fn.res.stamps[l].annotations # {}

\* what holds instead: no event carries any annotation, substituted or not
C26_NothingIsAnnotated ==
    Converted =>
        \A l \in 1..Len(fn.res.stamps) : fn.res.stamps[l].annotations = {}

\* ------------------------------------------------------------------- C27
\* C27: the canonical timestamp of a Shape A span time is the nanosecond
\* timestamp divided by 1,000,000 and rounded down, never up: it is the
\* largest number of whole milliseconds not after the nanosecond timestamp.
\* So two nanosecond timestamps never come out in the opposite order.
C27_FloorToMilliseconds ==
    fn.op = "span" /\ fn.stage = "normalized" =>
        LET ns == fn.arg
            ms == fn.res[2]
        IN  /\ \A i \in 1..2 :
                   /\ ms[i] * 1000000 <= ns[i]
                   /\ ns[i] < (ms[i] + 1) * 1000000
            /\ ns[1] <= ns[2] => ms[1] <= ms[2]
            /\ ns[1] >= ns[2] => ms[1] >= ms[2]

\* a span was normalized whose times lie in one millisecond, the first in
\* its first half and the second in its second half
C27_Witness ==
    /\ fn.op = "span" /\ fn.stage = "normalized"
    /\ fn.arg[1] = 1000001 /\ fn.arg[2] = 1999999
    /\ fn.res[2] = <<1, 1>>

\* ------------------------------------------------------------------- C28
\* the with-block of p's recorder was left normally (fault = FALSE) or through
\* a fault (TRUE), and end had not been called inside it
LeftWithoutEnd(p, fault) ==
    /\ calls[p] # <<>>
    /\ Last(calls[p]).op = "exit"
    /\ Last(calls[p]).arg = <<fault>>
    /\ Last(calls[p]).pre.state # "Ended"
    /\ \A i \in 1..Len(calls[p]) : calls[p][i].op # "end"

\* C28: when the with-block of an EpisodeRecorder is left normally and end
\* was not called in it, the recorder emits on exit one episode_end event
\* with outcome "pass": the only episode_end of the stream, and its last line.
C28_NormalExitEmitsPassEnd ==
    \A p \in Recorders :
        LeftWithoutEnd(p, FALSE)
        => /\ rec[p].state = "Ended"
           /\ emitted[p] # <<>>
           /\ Last(emitted[p]).type = "episode_end"
           /\ Last(emitted[p]).outcome = "pass"
           /\ CountType(emitted[p], "episode_end") = 1
           /\ pending[p] = <<>> => Landed(p) = emitted[p]

\* a with-block in which a step and its tool_call were recorded was left
\* normally without end, and the stream is written
C28_Witness ==
    \E p \in Recorders :
        /\ LeftWithoutEnd(p, FALSE)
        /\ Last(calls[p]).pre.issued = 1
        /\ \E i \in 1..Len(calls[p]) :
               calls[p][i].op = "tool_call" /\ calls[p][i].raised = None
        /\ pending[p] = <<>>
        /\ Len(Landed(p)) = 4

\* ------------------------------------------------------------------- C29
\* run has ended: it returned its Episode or let an exception escape
RunEnded(p) == agent[p].pc \in {"returned", "saving", "saved", "raised", "dropped"}

\* the loop of p's run ended because the iteration limit was reached, not by
\* a break: no model call was made, or the last answer requested tools
StoppedAtLimit(p) ==
    /\ Returned(p)
    /\ agent[p].turns = <<>> \/ Last(agent[p].turns)[1] > 0

C29_AtMostMaxIterationsCalls ==
    \A p \in Harnesses :
        /\ Len(agent[p].turns) = agent[p].iteration
        /\ Len(agent[p].turns) <= agent[p].max_iterations
        /\ StoppedAtLimit(p)
               => /\ agent[p].iteration = agent[p].max_iterations
                  /\ agent[p].episode.outcome = "error"
                  /\ agent[p].episode.output
                         = Some(<<"Max iterations (">>
                                    \o Digits(agent[p].max_iterations)
                                    \o <<") exceeded">>)
        /\ Returned(p) => agent[p].episode.outcome # "pending"

\* C29: run ends whatever the model answers, given that every model and tool
\* call returns; it makes at most max_iterations model calls; when it stops
\* because the limit is reached it returns an Episode with outcome "error"
\* and output "Max iterations (N) exceeded"; the Episode it returns is never
\* pending.
C29_RunTerminates ==
    /\ []C29_AtMostMaxIterationsCalls
    /\ \A p \in Procs :
           (role[p] = "harness" /\ agent[p].pc = "loop") ~> RunEnded(p)

\* a run of two iterations, both answered with tool requests, has returned
C29_Witness ==
    \E p \in Harnesses :
        /\ StoppedAtLimit(p)
        /\ agent[p].max_iterations = 2
        /\ Len(agent[p].turns) = 2

\* ------------------------------------------------------------------- C30
\* what run leaves in an Episode it returns, apart from the times: an outcome,
\* and steps that begin with the llm step of the first model call
RunShaped(episode) ==
    /\ episode.outcome # "pending"
    /\ episode.steps # <<>> => episode.steps[1].span_kind = "llm"
    /\ \A i \in 1..Len(episode.steps) :
           episode.steps[i].tool_call # None <=> episode.steps[i].span_kind = "tool"

\* the Episodes run returns are of that shape (Spec)
C30_ReturnedEpisodesAreRunShaped ==
    \A p \in Harnesses : Returned(p) => RunShaped(agent[p].episode)

\* the time fields run leaves: readings of the clock, written by isoformat,
\* taken in the order Episode, Steps as they are constructed, finished_at
ClockOrdered(times) ==
    LET all == <<times.started_at>> \o times.steps \o <<times.finished_at>>
    IN  /\ \A i \in 1..Len(all) : ParseMs(all[i]) # None
        /\ \A i \in 2..Len(all) : all[i - 1][2] <= all[i][2]

ProducedByRun == RunShaped(fn.arg.episode) /\ ClockOrdered(fn.arg.times)

\* C30: in the lines episode_to_jsonl returns for an Episode produced by run,
\* timestamps never decrease along the stream: no step, tool_call or
\* episode_end event has a timestamp smaller than that of an event before it.
C30_TimestampsNeverDecrease ==
    Converted /\ ProducedByRun =>
        \A l \in 2..Len(fn.res.stamps) : TimestampAt(l - 1) <= TimestampAt(l)

\* what holds instead: the episode_start, step and episode_end events are in
\* the order of their timestamps; only tool_call events can be later than
\* what follows them
C30_OrderedApartFromToolCalls ==
    Converted /\ ProducedByRun =>
        LET idx == SelectIdx([l \in 1..Len(fn.res.lines) |-> fn.res.lines[l].type],
                             {"episode_start", "step", "episode_end"}, 1)
        IN  \A n \in 2..Len(idx) : TimestampAt(idx[n - 1]) <= TimestampAt(idx[n])

\* an Episode as run produces it has been converted, with a tool step
C30_RunEpisodeConverted ==
    /\ Converted /\ ProducedByRun
    /\ \E i \in 1..Len(fn.arg.episode.steps) : fn.arg.episode.steps[i].tool_call # None
====
